---- MODULE Spec2Model ----
(***************************************************************************)
(* Model of wlrenv.niri: the boot-keyed window position store              *)
(* (src/src/wlrenv/niri/positions.py) and the column ordering engine       *)
(* (src/src/wlrenv/niri/ordering.py).                                      *)
(*                                                                         *)
(* Python dicts keep insertion order, so a dict is modelled as a sequence  *)
(* of [k, v] pairs; a Python list is a sequence; a str timestamp is a      *)
(* sequence of character codes compared as Python compares str.            *)
(***************************************************************************)
EXTENDS Integers, Sequences, FiniteSets, TLC

VARIABLES
    positions,   \* content of positions.json (a PositionsFile)
    fileExists,  \* whether positions.json exists on disk
    bootFile,    \* content of $XDG_RUNTIME_DIR/niri-tracker-boot: <<>> if absent, else <<boot id>>
    minted,      \* number of boot ids minted by uuid4 so far
    clock,       \* wall clock, in ticks of half a second
    ops,         \* number of store operations run so far
    last,        \* the last operation: its name, arguments, the store it loaded, its result
    lastWs,      \* per stable id, the target workspace of the latest upsert of the
                 \* current login session that contained the id: {} or {workspace}
    windows,     \* the windows the window manager reports (niri msg windows)
    focused,     \* the focused window: <<>> if none, else <<window id>>
    lock,        \* holder of the flock on positions.lock: <<>> if free, else <<process>>
    pc,          \* per process: the step of the store call it is running
    loc,         \* per process: the local variables of the call it is running
    tmp,         \* the files json.dump is writing or has left behind, per path:
                 \* <<>> if none, else <<[data, complete]>>
    hist,        \* history of the concurrent calls (what a sequential run would
                 \* hold, the calls completed, the boot ids returned)
    idFile,      \* librewolf-identities.json: <<>> if missing, else <<IdentitiesFile>>
    matcher,     \* the UrlMatcher of the current run: its entries and its available
                 \* set, the indexes (from 0) not yet consumed in this run
    uuids,       \* number of uuid4 values minted for identity entries so far
    run          \* history of the matcher runs: entries at load, the calls of this
                 \* run, the number of calls at its last save, the same of the run before

vars == <<positions, fileExists, bootFile, minted, clock, ops, last, lastWs, windows, focused,
          lock, pc, loc, tmp, hist, idFile, matcher, uuids, run>>
wm == <<windows, focused>>
conc == <<lock, pc, loc, tmp, hist>>
idm == <<idFile, matcher, uuids, run>>

----------------------------------------------------------------------------
(* Bounds and input sets *)

MaxOps == 3
MaxBoots == 2

Apps == {"tmux", "mosh", "librewolf"}
Workspaces == {1, 2}

\* a stable id f"{app}:{key}" is the pair <<app, key>>; the app names hold no ":",
\* so identity.split(":")[0] is the first component
StableId(app, key) == <<app, key>>
AppOf(identity) == identity[1]
StableIds == {StableId("tmux", "a"), StableId("mosh", "b"), StableId("tmux", "c")}

\* ticks that elapse between two reads of the wall clock by two store calls
Elapsed == {1}

----------------------------------------------------------------------------
(* Python values *)

Range(s) == {s[i] : i \in DOMAIN s}

\* dict: insertion-ordered sequence of [k, v]
DictKeys(d) == {d[i].k : i \in DOMAIN d}
DictHas(d, key) == key \in DictKeys(d)
DictGet(d, key) == d[CHOOSE i \in DOMAIN d : d[i].k = key].v
DictSet(d, key, val) ==
    IF DictHas(d, key)
    THEN [i \in DOMAIN d |-> IF d[i].k = key THEN [k |-> key, v |-> val] ELSE d[i]]
    ELSE Append(d, [k |-> key, v |-> val])
DictDel(d, key) == SelectSeq(d, LAMBDA p : p.k # key)

\* str(workspace_id) and int(ws_key)
str(n) == ToString(n)
int(s) == CHOOSE n \in 0..9 : ToString(n) = s

\* Python's < on str: lexicographic by code point, a proper prefix is smaller
RECURSIVE StrLess(_, _)
StrLess(a, b) ==
    IF b = <<>> THEN FALSE
    ELSE IF a = <<>> THEN TRUE
    ELSE IF a[1] # b[1] THEN a[1] < b[1]
    ELSE StrLess(Tail(a), Tail(b))

\* datetime.isoformat() of a UTC time: "...SS+00:00" when the microseconds are
\* zero, "...SS.ffffff+00:00" otherwise.  Kept: the two digits of the seconds,
\* the optional fraction (".5") and the "+" that starts the offset.
isoformat(t) ==
    LET s == t \div 2
    IN  <<48 + (s \div 10), 48 + (s % 10)>>
        \o (IF t % 2 = 1 THEN <<46, 53>> ELSE <<>>)
        \o <<43>>

----------------------------------------------------------------------------
(* Data model *)

PositionEntry(id, index, window_id, width) ==
    [id |-> id, index |-> index, window_id |-> window_id, width |-> width]

BootData(updated_at) ==
    [updated_at |-> updated_at, apps |-> <<>>, workspaces |-> <<>>]

PositionsFile == [version |-> 1, boots |-> <<>>]

\* track.py: width as a percentage of the output, rounded to the nearest 10
\* (pct = tile_width / output_width * 100; int((pct + 5) // 10 * 10))
calculate_width_percent(tile_width, output_width) ==
    ((tile_width * 100 + 5 * output_width) \div (10 * output_width)) * 10

----------------------------------------------------------------------------
(* Files *)

\* a load that gives a missing file no version
load_positions_unversioned ==
    IF fileExists THEN positions ELSE [version |-> 0, boots |-> <<>>]

\* load_positions: the file's content, or an empty PositionsFile if missing
load_positions == IF fileExists THEN positions ELSE PositionsFile

\* get_boot_id: the boot file's content, or a fresh uuid4 written to it.
\* uuid4 values are only ever compared for equality; the n-th minted one is n.
get_boot_id == IF bootFile # <<>> THEN bootFile[1] ELSE minted + 1
MintsBootId == bootFile = <<>>

----------------------------------------------------------------------------
(* upsert_entries *)

\* apps gains app unless it is there already
AddAppAlways(apps, app) == Append(apps, app)

\* if app not in boot.apps: boot.apps.append(app)
AddApp(apps, app) == IF app \in Range(apps) THEN apps ELSE Append(apps, app)

\* mutant: the stale entries are left where they are
RemoveStaleKept(workspaces, entry_ids) == workspaces

\* every workspace loses the entries whose id is being written
RemoveStale(workspaces, entry_ids) ==
    [i \in DOMAIN workspaces |->
        [k |-> workspaces[i].k,
         v |-> SelectSeq(workspaces[i].v, LAMBDA e : e.id \notin entry_ids)]]

\* workspaces whose list became empty are dropped
CleanEmpty(workspaces) == SelectSeq(workspaces, LAMBDA p : p.v # <<>>)

\* the entries are appended to the target workspace's list
AddEntries(workspaces, ws_key, entries) ==
    LET w == IF DictHas(workspaces, ws_key) THEN workspaces
             ELSE DictSet(workspaces, ws_key, <<>>)
    IN  DictSet(w, ws_key, DictGet(w, ws_key) \o entries)

\* mutant: only the target workspace loses the entries whose id is being written
upsert_entries_target_only(data, boot_id, now, app, workspace_id, entries) ==
    LET ws_key == str(workspace_id)
        boots0 == IF DictHas(data.boots, boot_id) THEN data.boots
                  ELSE DictSet(data.boots, boot_id, BootData(<<>>))
        boot == DictGet(boots0, boot_id)
        entry_ids == {entries[i].id : i \in DOMAIN entries}
        purged == [i \in DOMAIN boot.workspaces |->
                     IF boot.workspaces[i].k = ws_key
                     THEN RemoveStale(<<boot.workspaces[i]>>, entry_ids)[1]
                     ELSE boot.workspaces[i]]
        newBoot ==
            [updated_at |-> isoformat(now),
             apps |-> AddApp(boot.apps, app),
             workspaces |-> AddEntries(CleanEmpty(purged), ws_key, entries)]
    IN  [data EXCEPT !.boots = DictSet(boots0, boot_id, newBoot)]

upsert_entries(data, boot_id, now, app, workspace_id, entries) ==
    LET ws_key == str(workspace_id)
        boots0 == IF DictHas(data.boots, boot_id) THEN data.boots
                  ELSE DictSet(data.boots, boot_id, BootData(<<>>))
        boot == DictGet(boots0, boot_id)
        entry_ids == {entries[i].id : i \in DOMAIN entries}
        newBoot ==
            [updated_at |-> isoformat(now),
             apps |-> AddApp(boot.apps, app),
             workspaces |->
                AddEntries(CleanEmpty(RemoveStale(boot.workspaces, entry_ids)),
                           ws_key, entries)]
    IN  [data EXCEPT !.boots = DictSet(boots0, boot_id, newBoot)]

----------------------------------------------------------------------------
(* prune_dominated_boots *)

\* mutant: the time comparison is reversed
DominatedIfNewer(boot, current) ==
    /\ Range(boot.apps) \subseteq Range(current.apps)
    /\ StrLess(current.updated_at, boot.updated_at)

\* mutant: the application families are not compared
DominatedByTimeOnly(boot, current) ==
    StrLess(boot.updated_at, current.updated_at)

\* set(boot.apps) <= current_apps and boot.updated_at < current_time
Dominated(boot, current) ==
    /\ Range(boot.apps) \subseteq Range(current.apps)
    /\ StrLess(boot.updated_at, current.updated_at)

\* mutant: every boot but the current one is deleted
ToDeleteOthers(boots, current_boot_id) ==
    SelectSeq(boots, LAMBDA p : p.k # current_boot_id)

\* to_delete: the ids of the other boots the current boot dominates, in dict order
ToDelete(boots, current_boot_id) ==
    LET current == DictGet(boots, current_boot_id)
    IN  SelectSeq(boots, LAMBDA p : p.k # current_boot_id /\ Dominated(p.v, current))

RECURSIVE DelAll(_, _)
DelAll(boots, to_delete) ==
    IF to_delete = <<>> THEN boots
    ELSE DelAll(DictDel(boots, Head(to_delete).k), Tail(to_delete))

\* the PositionsFile prune_dominated_boots leaves in memory
prune_dominated_boots(data, current_boot_id) ==
    IF ~DictHas(data.boots, current_boot_id) THEN data
    ELSE [data EXCEPT !.boots = DelAll(data.boots, ToDelete(data.boots, current_boot_id))]

\* prune_dominated_boots saves only when it deleted something
PruneSaves(data, current_boot_id) ==
    /\ DictHas(data.boots, current_boot_id)
    /\ ToDelete(data.boots, current_boot_id) # <<>>

----------------------------------------------------------------------------
(* Inputs of upsert_entries, as its callers build them *)

\* the windows a tracker pass may see: niri's window id, column and tile width
LiveWindows ==
    { [id |-> 1, column |-> <<1>>, tile_width |-> 960],
      [id |-> 2, column |-> <<2>>, tile_width |-> 1920] }
Output == [name |-> "DP-1", width |-> 1920]

\* the sessions of an application family
IdsOf(app) == {id \in StableIds : AppOf(id) = app}

\* the entry a tracker records for a window it identified
TrackedEntry(identity, w) ==
    PositionEntry(identity, w.column[1], w.id,
                  calculate_width_percent(w.tile_width, Output.width))

\* the lists a caller passes for one application family and one workspace.
\* tmux: one window, or both windows, on two sessions or attached to the same
\* session; mosh: one window; librewolf: the empty list
EntryLists(app) ==
    LET one == {<<TrackedEntry(i, w)>> : i \in IdsOf(app), w \in LiveWindows}
        w1 == CHOOSE w \in LiveWindows : w.id = 1
        w2 == CHOOSE w \in LiveWindows : w.id = 2
        a == StableId("tmux", "a")
        c == StableId("tmux", "c")
    IN  CASE app = "tmux" ->
                one \cup {<<TrackedEntry(a, w1), TrackedEntry(c, w2)>>,
                          <<TrackedEntry(a, w1), TrackedEntry(a, w2)>>}
          [] app = "mosh" -> one
          [] OTHER -> {<<>>}

----------------------------------------------------------------------------
(* lookup_latest_position *)

\* the (boot, workspace, entry) triples in the order the three nested loops visit them
RECURSIVE WsTriples(_, _, _)
WsTriples(boot, workspaces, i) ==
    IF i > Len(workspaces) THEN <<>>
    ELSE [j \in DOMAIN workspaces[i].v |->
            [boot |-> boot, ws_key |-> workspaces[i].k, entry |-> workspaces[i].v[j]]]
         \o WsTriples(boot, workspaces, i + 1)

\* mutant: only the first boot is scanned
BootTriplesFirstOnly(boots, i) ==
    IF i > Len(boots) \/ i > 1 THEN <<>>
    ELSE WsTriples(boots[i].v, boots[i].v.workspaces, 1)

RECURSIVE BootTriples(_, _)
BootTriples(boots, i) ==
    IF i > Len(boots) THEN <<>>
    ELSE WsTriples(boots[i].v, boots[i].v.workspaces, 1) \o BootTriples(boots, i + 1)

\* mutant: an older boot replaces a newer one
IsEarlier(updated_at, latest_time) ==
    latest_time = <<>> \/ StrLess(updated_at, latest_time[1])

\* latest_time is None or boot.updated_at > latest_time (None is <<>>)
IsLater(updated_at, latest_time) ==
    latest_time = <<>> \/ StrLess(latest_time[1], updated_at)

\* None is <<>>, a PositionResult r is <<r>>; latest is [time, result]
RECURSIVE LookupLoop(_, _, _)
LookupLoop(triples, stable_id, latest) ==
    IF triples = <<>> THEN latest.result
    ELSE LET t == Head(triples)
             take == /\ t.entry.id = stable_id
                     /\ IsLater(t.boot.updated_at, latest.time)
         IN  LookupLoop(Tail(triples), stable_id,
                        IF take
                        THEN [time |-> <<t.boot.updated_at>>,
                              result |-> <<[workspace_id |-> int(t.ws_key),
                                            width |-> t.entry.width]>>]
                        ELSE latest)

lookup_latest_position(data, stable_id) ==
    LookupLoop(BootTriples(data.boots, 1), stable_id, [time |-> <<>>, result |-> <<>>])

----------------------------------------------------------------------------
(* find_predecessors *)

all_apps == {"tmux", "mosh", "librewolf"}

\* a boot the inner loop does not skip
Candidate(boot, stable_id, this_app, other_app, ws_key) ==
    /\ this_app \in Range(boot.apps)
    /\ other_app \in Range(boot.apps)
    /\ DictHas(boot.workspaces, ws_key)
    /\ \E e \in Range(DictGet(boot.workspaces, ws_key)) : e.id = stable_id

\* mutant: an older boot replaces a newer one as best_boot
IsOlder(updated_at, best) ==
    best = <<>> \/ StrLess(updated_at, best[1].updated_at)

\* best_time is None or boot.updated_at > best_time (None is <<>>)
IsNewer(updated_at, best) ==
    best = <<>> \/ StrLess(best[1].updated_at, updated_at)

\* best_boot: None is <<>>; a later boot replaces it only if strictly newer
RECURSIVE BestBoot(_, _, _, _, _, _)
BestBoot(boots, stable_id, this_app, other_app, ws_key, best) ==
    IF boots = <<>> THEN best
    ELSE LET boot == Head(boots).v
             take == /\ Candidate(boot, stable_id, this_app, other_app, ws_key)
                     /\ IsNewer(boot.updated_at, best)
         IN  BestBoot(Tail(boots), stable_id, this_app, other_app, ws_key,
                      IF take THEN <<boot>> ELSE best)

\* this_index: the index of the first entry with the id
ThisIndex(entries, stable_id) ==
    entries[CHOOSE i \in DOMAIN entries :
                /\ entries[i].id = stable_id
                /\ \A j \in 1..(i - 1) : entries[j].id # stable_id].index

\* the ids one application family contributes
PredecessorsVia(data, stable_id, this_app, other_app, ws_key) ==
    LET best == BestBoot(data.boots, stable_id, this_app, other_app, ws_key, <<>>)
    IN  IF best = <<>> THEN {}
        ELSE LET entries == DictGet(best[1].workspaces, ws_key)
                 this_index == ThisIndex(entries, stable_id)
             IN  {e.id : e \in {x \in Range(entries) :
                                   x.index < this_index /\ x.id # stable_id}}

\* the result is list(set): its order is unspecified, so it is kept as a set
find_predecessors(data, stable_id, this_app, workspace_id) ==
    UNION {PredecessorsVia(data, stable_id, this_app, other_app, str(workspace_id)) :
             other_app \in all_apps}

----------------------------------------------------------------------------
(* resolve_predecessors_to_window_ids *)

\* id_to_window: a later entry with the same id replaces an earlier one
RECURSIVE IdToWindow(_, _)
IdToWindow(entries, d) ==
    IF entries = <<>> THEN d
    ELSE IdToWindow(Tail(entries), DictSet(d, Head(entries).id, Head(entries).window_id))

\* predecessor_ids in some order
RECURSIVE ListOf(_)
ListOf(S) == IF S = {} THEN <<>>
             ELSE LET x == CHOOSE y \in S : TRUE IN <<x>> \o ListOf(S \ {x})

resolve_predecessors_to_window_ids(data, boot_id, predecessor_ids, workspace_id) ==
    LET ws_key == str(workspace_id)
    IN  IF ~DictHas(data.boots, boot_id) THEN <<>>
        ELSE LET boot == DictGet(data.boots, boot_id)
             IN  IF ~DictHas(boot.workspaces, ws_key) THEN <<>>
                 ELSE LET id_to_window == IdToWindow(DictGet(boot.workspaces, ws_key), <<>>)
                          present == SelectSeq(predecessor_ids,
                                               LAMBDA pid : DictHas(id_to_window, pid))
                      IN  [i \in DOMAIN present |-> DictGet(id_to_window, present[i])]

----------------------------------------------------------------------------
(* The state machine *)

\* the processes that call into the store at the same time (a tracker and a restorer)
Processes == {"p1", "p2"}

\* the files json.dump may be writing: one temporary file per process (mkstemp
\* gives each its own name) and, never in this code, positions.json itself
WritePaths == Processes \cup {"positions.json"}

\* no identities file and a matcher loaded from it
NoRun == [n |-> 0, calls |-> <<>>, saved |-> <<>>]
IdmInit ==
    /\ idFile = <<>>
    /\ matcher = [entries |-> <<>>, available |-> {}]
    /\ uuids = 0
    /\ run = [n |-> 0, calls |-> <<>>, saved |-> <<>>, prev |-> NoRun]

ConcInit ==
    /\ lock = <<>>
    /\ pc = [p \in Processes |-> "idle"]
    /\ loc = [p \in Processes |-> [op |-> "none"]]
    /\ tmp = [f \in WritePaths |-> <<>>]
    /\ hist = [seq |-> PositionsFile, done |-> {}, returned |-> {}]

Init ==
    /\ ConcInit
    /\ IdmInit
    /\ positions = PositionsFile
    /\ fileExists = FALSE
    /\ bootFile = <<>>
    /\ minted = 0
    /\ clock = 0
    /\ ops = 0
    /\ last = [op |-> "none"]
    /\ lastWs = [id \in StableIds |-> {}]
    /\ windows = {}
    /\ focused = <<>>

\* what a call of get_boot_id does to the boot file
WriteBootFile ==
    /\ MintsBootId => minted < MaxBoots
    /\ bootFile' = <<get_boot_id>>
    /\ minted' = IF MintsBootId THEN minted + 1 ELSE minted

\* whether the previous store call was this very upsert, in the same boot
SameCall(app, workspace_id, entries, boot_id) ==
    /\ last.op = "upsert"
    /\ last.app = app
    /\ last.workspace_id = workspace_id
    /\ last.entries = entries
    /\ last.boot_id = boot_id

Upsert(app, workspace_id, entries) ==
    /\ UNCHANGED <<conc, idm>>
    /\ ops < MaxOps
    /\ WriteBootFile
    /\ \E d \in Elapsed :
        LET data == load_positions
            boot_id == get_boot_id
            now == clock + d
        IN  /\ clock' = now
            /\ positions' = upsert_entries(data, boot_id, now, app, workspace_id, entries)
            /\ fileExists' = TRUE
            /\ last' = [op |-> "upsert", app |-> app, workspace_id |-> workspace_id,
                        entries |-> entries, boot_id |-> boot_id, pre |-> data,
                        repeat |-> SameCall(app, workspace_id, entries, boot_id)]
    /\ lastWs' = [id \in StableIds |->
                    IF \E i \in DOMAIN entries : entries[i].id = id
                    THEN {workspace_id} ELSE lastWs[id]]
    /\ ops' = ops + 1
    /\ UNCHANGED wm

Prune(current_boot_id) ==
    /\ UNCHANGED <<conc, idm>>
    /\ ops < MaxOps
    /\ LET data == load_positions
       IN  /\ positions' = IF PruneSaves(data, current_boot_id)
                           THEN prune_dominated_boots(data, current_boot_id)
                           ELSE positions
           /\ last' = [op |-> "prune", current_boot_id |-> current_boot_id, pre |-> data]
    /\ ops' = ops + 1
    /\ UNCHANGED <<fileExists, bootFile, minted, clock, lastWs, windows, focused>>

\* the login session ends: the runtime directory, and the boot file in it, are gone
Reboot ==
    /\ UNCHANGED <<conc, idm>>
    /\ bootFile # <<>>
    /\ minted < MaxBoots
    /\ bootFile' = <<>>
    /\ lastWs' = [id \in StableIds |-> {}]
    /\ UNCHANGED <<positions, fileExists, minted, clock, ops, last, windows, focused>>

LookupLatest(stable_id) ==
    /\ UNCHANGED <<conc, idm>>
    /\ ops < MaxOps
    /\ LET data == load_positions
       IN  last' = [op |-> "lookup_latest_position", stable_id |-> stable_id,
                    pre |-> data, ret |-> lookup_latest_position(data, stable_id)]
    /\ ops' = ops + 1
    /\ UNCHANGED <<positions, fileExists, bootFile, minted, clock, lastWs, windows, focused>>

\* the two store reads of place_window: the predecessors of the window's identity,
\* then their window ids in the current boot
FindAndResolve(identity, workspace_id) ==
    /\ UNCHANGED <<conc, idm>>
    /\ ops < MaxOps
    /\ WriteBootFile
    /\ LET data == load_positions
           app == AppOf(identity)
           predecessor_ids == find_predecessors(data, identity, app, workspace_id)
           boot_id == get_boot_id
       IN  last' = [op |-> "find_predecessors", stable_id |-> identity, this_app |-> app,
                    workspace_id |-> workspace_id, boot_id |-> boot_id, pre |-> data,
                    predecessor_ids |-> predecessor_ids,
                    predecessor_window_ids |->
                        resolve_predecessors_to_window_ids(
                            data, boot_id, ListOf(predecessor_ids), workspace_id)]
    /\ ops' = ops + 1
    /\ UNCHANGED <<positions, fileExists, clock, lastWs, windows, focused>>

Next ==
    \/ \E app \in Apps, w \in Workspaces : \E entries \in EntryLists(app) :
          Upsert(app, w, entries)
    \/ \E b \in 1..MaxBoots : Prune(b)
    \/ Reboot
    \/ \E id \in StableIds : LookupLatest(id)
    \/ \E id \in StableIds, w \in Workspaces : FindAndResolve(id, w)

Spec == Init /\ [][Next]_vars

----------------------------------------------------------------------------
(* The window manager as the ordering engine reads it *)

MaxColumn == 4

\* the windows of the session: three terminals and the spacer
Terminals ==
    { [id |-> 1, title |-> "a", tile_width |-> 960],
      [id |-> 2, title |-> "b", tile_width |-> 1920],
      [id |-> 3, title |-> "c", tile_width |-> 960] }
SpacerWindow == [id |-> 4, title |-> "niri-spacer window", tile_width |-> 192]
ManagedWindows == Terminals \cup {SpacerWindow}

\* the session the terminal's child process is attached to
IdentityOf(window_id) ==
    CASE window_id = 1 -> StableId("tmux", "a")
      [] window_id = 2 -> StableId("mosh", "b")
      [] window_id = 3 -> StableId("tmux", "c")

\* a Window as niri reports it; column is None (<<>>) for a floating window
Window(m, workspace_id, column) ==
    [id |-> m.id, title |-> m.title, workspace_id |-> workspace_id,
     column |-> column, tile_width |-> m.tile_width]

\* the tiled columns of a workspace
ColumnsOf(W, workspace_id) ==
    {w.column[1] : w \in {x \in W : x.workspace_id = workspace_id /\ x.column # <<>>}}
LastColumn(W, workspace_id) ==
    IF ColumnsOf(W, workspace_id) = {} THEN 0
    ELSE CHOOSE c \in ColumnsOf(W, workspace_id) :
            \A d \in ColumnsOf(W, workspace_id) : d <= c

\* ipc.get_windows(): the windows, listed by id
RECURSIVE get_windows(_)
get_windows(W) ==
    IF W = {} THEN <<>>
    ELSE LET w == CHOOSE x \in W : \A y \in W : x.id <= y.id
         IN  <<w>> \o get_windows(W \ {w})

\* a layout the session can start from: every managed window is open, in each
\* workspace the tiled windows occupy the columns 1..n, one window per column;
\* only terminal b is ever floating and the spacer lives in workspace 1
ValidLayout(W) ==
    /\ \A m \in ManagedWindows : \E w \in W : w.id = m.id
    /\ \A w1, w2 \in W : w1.id = w2.id => w1 = w2
    /\ \A w \in W : w.column = <<>> => w.title = "b"
    /\ \A w \in W : w.title = "niri-spacer window" => w.workspace_id = 1
    /\ \A ws \in Workspaces :
        /\ ColumnsOf(W, ws) = 1..LastColumn(W, ws)
        /\ \A w1, w2 \in W :
              (w1.workspace_id = ws /\ w2.workspace_id = ws /\ w1.column # <<>>
               /\ w1.column = w2.column) => w1 = w2

Placements ==
    {<<>>} \cup {<<ws, col>> : ws \in Workspaces,
                             col \in {<<>>} \cup {<<c>> : c \in 1..MaxColumn}}
Layouts ==
    {W \in {{Window(m, f[m][1], f[m][2]) : m \in {x \in ManagedWindows : f[x] # <<>>}} :
              f \in [ManagedWindows -> Placements]} : ValidLayout(W)}

----------------------------------------------------------------------------
(* ordering.py *)

SPACER_IDENTITY == "__spacer__"

IndexOf(seq, x) == CHOOSE i \in DOMAIN seq : seq[i] = x /\ \A j \in 1..(i - 1) : seq[j] # x

get_predecessors(identity, saved_order) ==
    IF identity \notin Range(saved_order) THEN <<>>
    ELSE SubSeq(saved_order, 1, IndexOf(saved_order, identity) - 1)

\* the loop of find_rightmost_predecessor: rightmost is None (<<>>) or <<window>>
RECURSIVE RightmostLoop(_, _, _, _)
RightmostLoop(predecessors, current_windows, rightmost, rightmost_col) ==
    IF predecessors = <<>> THEN rightmost
    ELSE LET pred_id == Head(predecessors)
             present == DictHas(current_windows, pred_id)
             window == DictGet(current_windows, pred_id)
             take == present /\ window.column # <<>> /\ window.column[1] > rightmost_col
         IN  RightmostLoop(Tail(predecessors), current_windows,
                           IF take THEN <<window>> ELSE rightmost,
                           IF take THEN window.column[1] ELSE rightmost_col)

find_rightmost_predecessor(identity, saved_order, current_windows) ==
    LET preds == get_predecessors(identity, saved_order)
        predecessors == IF SPACER_IDENTITY \notin Range(preds)
                        THEN <<SPACER_IDENTITY>> \o preds ELSE preds
    IN  RightmostLoop(predecessors, current_windows, <<>>, 0)

calculate_target_column(identity, saved_order, current_windows) ==
    LET rightmost == find_rightmost_predecessor(identity, saved_order, current_windows)
    IN  IF rightmost = <<>> \/ rightmost[1].column = <<>> THEN 1
        ELSE rightmost[1].column[1] + 1

\* identity -> Window of the windows of the workspace, the spacer under SPACER_IDENTITY
RECURSIVE BuildLoop(_, _, _, _)
BuildLoop(list, workspace_id, exclude_window_id, current) ==
    IF list = <<>> THEN current
    ELSE LET w == Head(list)
             skip == \/ w.workspace_id # workspace_id
                     \/ (exclude_window_id # <<>> /\ w.id = exclude_window_id[1])
             key == IF w.title = "niri-spacer window" THEN SPACER_IDENTITY ELSE w.title
         IN  BuildLoop(Tail(list), workspace_id, exclude_window_id,
                       IF skip THEN current ELSE DictSet(current, key, w))

_build_current_windows(W, workspace_id, exclude_window_id) ==
    BuildLoop(get_windows(W), workspace_id, exclude_window_id, <<>>)

\* the commands move_to_column sends to the window manager, in order
\* mutant: the loop stops one column short of the target
RECURSIVE MovesLeftShort(_, _)
MovesLeftShort(current_column, target_column) ==
    IF current_column - 1 > target_column
    THEN <<<<"move_column_left">>>> \o MovesLeftShort(current_column - 1, target_column)
    ELSE <<>>

RECURSIVE MovesLeft(_, _)
MovesLeft(current_column, target_column) ==
    IF current_column > target_column
    THEN <<<<"move_column_left">>>> \o MovesLeft(current_column - 1, target_column)
    ELSE <<>>

RECURSIVE MovesRight(_, _)
MovesRight(current_column, target_column) ==
    IF current_column < target_column
    THEN <<<<"move_column_right">>>> \o MovesRight(current_column + 1, target_column)
    ELSE <<>>

\* mutant: the window is focused even when it is already in place
move_to_column_always_focus(window_id, current_column, target_column) ==
    <<<<"focus_window", window_id>>>>
        \o MovesLeft(current_column, target_column)
        \o MovesRight(current_column, target_column)

move_to_column(window_id, current_column, target_column) ==
    IF current_column = target_column THEN <<>>
    ELSE <<<<"focus_window", window_id>>>>
            \o MovesLeft(current_column, target_column)
            \o MovesRight(current_column, target_column)

\* mutant: the workspace of a window is not looked at
RECURSIVE WindowIdToColumnAnywhere(_, _)
WindowIdToColumnAnywhere(list, workspace_id) ==
    IF list = <<>> THEN <<>>
    ELSE LET w == list[Len(list)]
             rest == WindowIdToColumnAnywhere(SubSeq(list, 1, Len(list) - 1), workspace_id)
         IN  IF w.column = <<>> THEN rest ELSE DictSet(rest, w.id, w.column[1])

\* window_id_to_column of place_window
RECURSIVE WindowIdToColumn(_, _)
WindowIdToColumn(list, workspace_id) ==
    IF list = <<>> THEN <<>>
    ELSE LET w == list[Len(list)]
             rest == WindowIdToColumn(SubSeq(list, 1, Len(list) - 1), workspace_id)
         IN  IF w.workspace_id # workspace_id \/ w.column = <<>> THEN rest
             ELSE DictSet(rest, w.id, w.column[1])

\* mutant: the spacer is not looked for
SpacerColumnNone(list, workspace_id) == <<>>

\* spacer_column of place_window: None (<<>>) or the column of the last window
\* of the workspace titled "niri-spacer window" that has a column
RECURSIVE SpacerColumn(_, _)
SpacerColumn(list, workspace_id) ==
    IF list = <<>> THEN <<>>
    ELSE LET w == list[Len(list)]
         IN  IF /\ w.workspace_id = workspace_id
                /\ w.column # <<>>
                /\ w.title = "niri-spacer window"
             THEN w.column
             ELSE SpacerColumn(SubSeq(list, 1, Len(list) - 1), workspace_id)

\* the loop over predecessor_window_ids
RECURSIVE RightmostCol(_, _, _)
RightmostCol(predecessor_window_ids, window_id_to_column, rightmost_col) ==
    IF predecessor_window_ids = <<>> THEN rightmost_col
    ELSE LET pred_window_id == Head(predecessor_window_ids)
             take == /\ DictHas(window_id_to_column, pred_window_id)
                     /\ DictGet(window_id_to_column, pred_window_id) > rightmost_col
         IN  RightmostCol(Tail(predecessor_window_ids), window_id_to_column,
                          IF take THEN DictGet(window_id_to_column, pred_window_id)
                          ELSE rightmost_col)

\* the column of the rightmost predecessor itself
TargetOnRightmost(rightmost_col) == IF rightmost_col > 0 THEN rightmost_col ELSE 1

\* target = rightmost_col + 1 if rightmost_col > 0 else 1
Target(rightmost_col) == IF rightmost_col > 0 THEN rightmost_col + 1 ELSE 1

\* place_window up to its call of move_to_column: what it read and the commands it sends
place_window(data, boot_id, W, window_id, identity, workspace_id, current_column) ==
    LET app == AppOf(identity)
        predecessor_ids == find_predecessors(data, identity, app, workspace_id)
        predecessor_window_ids ==
            resolve_predecessors_to_window_ids(data, boot_id, ListOf(predecessor_ids),
                                               workspace_id)
        list == get_windows(W)
        window_id_to_column == WindowIdToColumn(list, workspace_id)
        spacer_column == SpacerColumn(list, workspace_id)
        col0 == IF spacer_column # <<>> /\ spacer_column[1] > 0 THEN spacer_column[1] ELSE 0
        rightmost_col == RightmostCol(predecessor_window_ids, window_id_to_column, col0)
        target == Target(rightmost_col)
    IN  [predecessor_ids |-> predecessor_ids,
         predecessor_window_ids |-> predecessor_window_ids,
         target |-> target,
         cmds |-> move_to_column(window_id, current_column, target)]

----------------------------------------------------------------------------
(* The window manager's commands: focus a window by id, move the focused     *)
(* window's column left or right by one step                                  *)

SwapColumns(W, workspace_id, c1, c2) ==
    {IF w.workspace_id = workspace_id /\ w.column = <<c1>> THEN [w EXCEPT !.column = <<c2>>]
     ELSE IF w.workspace_id = workspace_id /\ w.column = <<c2>> THEN [w EXCEPT !.column = <<c1>>]
     ELSE w : w \in W}

\* the focused window, if it is live and tiled
FocusedTiled(state) ==
    {w \in state.windows : state.focused = <<w.id>> /\ w.column # <<>>}

focus_window(state, window_id) ==
    IF \E w \in state.windows : w.id = window_id
    THEN [state EXCEPT !.focused = <<window_id>>]
    ELSE state

\* the focused column changes place with its left neighbour; nothing at the edge
move_column_left(state) ==
    IF FocusedTiled(state) = {} THEN state
    ELSE LET w == CHOOSE x \in FocusedTiled(state) : TRUE
             c == w.column[1]
         IN  IF c = 1 THEN state
             ELSE [state EXCEPT !.windows = SwapColumns(@, w.workspace_id, c, c - 1)]

\* the focused column changes place with its right neighbour; nothing at the edge
move_column_right(state) ==
    IF FocusedTiled(state) = {} THEN state
    ELSE LET w == CHOOSE x \in FocusedTiled(state) : TRUE
             c == w.column[1]
         IN  IF c = LastColumn(state.windows, w.workspace_id) THEN state
             ELSE [state EXCEPT !.windows = SwapColumns(@, w.workspace_id, c, c + 1)]

\* the window manager runs the commands in the order they were sent
RECURSIVE RunCommands(_, _)
RunCommands(state, cmds) ==
    IF cmds = <<>> THEN state
    ELSE LET cmd == Head(cmds)
             next == CASE cmd[1] = "focus_window" -> focus_window(state, cmd[2])
                       [] cmd[1] = "move_column_left" -> move_column_left(state)
                       [] cmd[1] = "move_column_right" -> move_column_right(state)
         IN  RunCommands(next, Tail(cmds))

----------------------------------------------------------------------------
(* track.py: track_terminals *)

\* the entries of one application family in one workspace, in window order
TerminalEntries(list, app, workspace_id) ==
    LET mine == SelectSeq(list, LAMBDA w :
                    /\ w.title # "niri-spacer window"
                    /\ AppOf(IdentityOf(w.id)) = app
                    /\ w.workspace_id = workspace_id
                    /\ w.column # <<>>)
    IN  [i \in DOMAIN mine |-> TrackedEntry(IdentityOf(mine[i].id), mine[i])]

\* the keys of tmux_entries / mosh_entries, in insertion order
RECURSIVE WorkspaceOrder(_, _, _)
WorkspaceOrder(list, app, seen) ==
    IF list = <<>> THEN seen
    ELSE LET w == Head(list)
             adds == /\ TerminalEntries(<<w>>, app, w.workspace_id) # <<>>
                     /\ w.workspace_id \notin Range(seen)
         IN  WorkspaceOrder(Tail(list), app, IF adds THEN Append(seen, w.workspace_id) ELSE seen)

\* one upsert per workspace, each reading the clock d ticks after the previous one
RECURSIVE UpsertEach(_, _, _, _, _, _, _)
UpsertEach(data, boot_id, now, d, app, keys, list) ==
    IF keys = <<>> THEN [data |-> data, now |-> now]
    ELSE UpsertEach(upsert_entries(data, boot_id, now + d, app, Head(keys),
                                   TerminalEntries(list, app, Head(keys))),
                    boot_id, now + d, d, app, Tail(keys), list)

track_terminals(data, boot_id, W, now, d) ==
    LET list == get_windows(W)
        tmux == UpsertEach(data, boot_id, now, d, "tmux", WorkspaceOrder(list, "tmux", <<>>), list)
        mosh == UpsertEach(tmux.data, boot_id, tmux.now, d, "mosh",
                           WorkspaceOrder(list, "mosh", <<>>), list)
    IN  [data |-> IF PruneSaves(mosh.data, boot_id)
                  THEN prune_dominated_boots(mosh.data, boot_id) ELSE mosh.data,
         now |-> mosh.now]

----------------------------------------------------------------------------
(* The state machine of the ordering engine *)

\* the saved orders and identities calculate_target_column is applied to
SavedOrders == {<<"a", "b", "c">>, <<"b", "c", "a">>, <<"a", "b">>}
Identities == {"c"}

InitOrder ==
    /\ ConcInit
    /\ IdmInit
    /\ positions = PositionsFile
    /\ fileExists = FALSE
    /\ bootFile = <<>>
    /\ minted = 0
    /\ clock = 0
    /\ ops = 0
    /\ last = [op |-> "none"]
    /\ lastWs = [id \in StableIds |-> {}]
    /\ windows \in Layouts
    /\ focused = <<>>

\* the columns right of a tiled window that leaves its workspace close the gap
Without(W, w) ==
    {IF x.workspace_id = w.workspace_id /\ x.column # <<>> /\ w.column # <<>>
        /\ x.column[1] > w.column[1]
     THEN [x EXCEPT !.column = <<x.column[1] - 1>>] ELSE x : x \in W \ {w}}

\* the user sends a tiled window to the other workspace: it becomes its last column
MoveWindowToWorkspace(w, workspace_id) ==
    /\ UNCHANGED <<conc, idm>>
    /\ ops < MaxOps
    /\ w \in windows
    /\ w.column # <<>>
    /\ w.workspace_id # workspace_id
    /\ w.title # "niri-spacer window"
    /\ windows' = Without(windows, w) \cup
                    {[w EXCEPT !.workspace_id = workspace_id,
                               !.column = <<LastColumn(windows, workspace_id) + 1>>]}
    /\ ops' = ops + 1
    /\ UNCHANGED <<positions, fileExists, bootFile, minted, clock, last, lastWs, focused>>

\* the user closes a terminal (the spacer is permanent)
CloseWindow(w) ==
    /\ UNCHANGED <<conc, idm>>
    /\ ops < MaxOps
    /\ w \in windows
    /\ w.title # "niri-spacer window"
    /\ windows' = Without(windows, w)
    /\ focused' = IF focused = <<w.id>> THEN <<>> ELSE focused
    /\ ops' = ops + 1
    /\ UNCHANGED <<positions, fileExists, bootFile, minted, clock, last, lastWs>>

TrackTerminals ==
    /\ UNCHANGED <<conc, idm>>
    /\ ops < MaxOps
    /\ WriteBootFile
    /\ \E d \in Elapsed :
        LET data == load_positions
            r == track_terminals(data, get_boot_id, windows, clock, d)
        IN  /\ positions' = IF r.now # clock THEN r.data ELSE positions
            /\ fileExists' = (fileExists \/ r.now # clock)
            /\ clock' = r.now
            /\ last' = [op |-> "track_terminals", pre |-> data, windows |-> windows,
                        boot_id |-> get_boot_id]
    /\ lastWs' = [id \in StableIds |->
                    IF \E w \in windows : /\ w.title # "niri-spacer window"
                                          /\ IdentityOf(w.id) = id
                                          /\ w.column # <<>>
                    THEN {w.workspace_id : w \in {x \in windows :
                                                    /\ x.title # "niri-spacer window"
                                                    /\ IdentityOf(x.id) = id}}
                    ELSE lastWs[id]]
    /\ ops' = ops + 1
    /\ UNCHANGED wm

\* a restorer places a terminal it has just configured: the identity is the
\* terminal's session, the workspace and the column are those the window is in
PlaceWindow(w) ==
    /\ UNCHANGED <<conc, idm>>
    /\ ops < MaxOps
    /\ w \in windows
    /\ w.title # "niri-spacer window"
    /\ w.column # <<>>
    /\ WriteBootFile
    /\ LET data == load_positions
           r == place_window(data, get_boot_id, windows, w.id, IdentityOf(w.id),
                             w.workspace_id, w.column[1])
           after == RunCommands([windows |-> windows, focused |-> focused], r.cmds)
       IN  /\ windows' = after.windows
           /\ focused' = after.focused
           /\ last' = [op |-> "place_window", window_id |-> w.id,
                       identity |-> IdentityOf(w.id), workspace_id |-> w.workspace_id,
                       current_column |-> w.column[1], windows |-> windows,
                       predecessor_window_ids |-> r.predecessor_window_ids,
                       target |-> r.target, cmds |-> r.cmds, after |-> after.windows]
    /\ ops' = ops + 1
    /\ UNCHANGED <<positions, fileExists, clock, lastWs>>

CalculateTargetColumn(identity, saved_order, workspace_id) ==
    /\ UNCHANGED <<conc, idm>>
    /\ ops < MaxOps
    /\ \E exclude_window_id \in {<<>>} :
        LET current_windows == _build_current_windows(windows, workspace_id, exclude_window_id)
        IN  last' = [op |-> "calculate_target_column", identity |-> identity,
                     saved_order |-> saved_order, workspace_id |-> workspace_id,
                     exclude_window_id |-> exclude_window_id, windows |-> windows,
                     target |-> calculate_target_column(identity, saved_order, current_windows)]
    /\ ops' = ops + 1
    /\ UNCHANGED <<positions, fileExists, bootFile, minted, clock, lastWs, windows, focused>>

MoveToColumn(w, target_column) ==
    /\ UNCHANGED <<conc, idm>>
    /\ ops < MaxOps
    /\ w \in windows
    /\ w.column # <<>>
    /\ LET cmds == move_to_column(w.id, w.column[1], target_column)
           after == RunCommands([windows |-> windows, focused |-> focused], cmds)
       IN  /\ windows' = after.windows
           /\ focused' = after.focused
           /\ last' = [op |-> "move_to_column", window_id |-> w.id,
                       current_column |-> w.column[1], target |-> target_column,
                       windows |-> windows, cmds |-> cmds, after |-> after.windows]
    /\ ops' = ops + 1
    /\ UNCHANGED <<positions, fileExists, bootFile, minted, clock, lastWs>>

NextOrder ==
    \/ \E w \in windows, ws \in Workspaces : MoveWindowToWorkspace(w, ws)
    \/ \E w \in windows : CloseWindow(w)
    \/ TrackTerminals
    \/ \E w \in windows : PlaceWindow(w)
    \/ \E identity \in Identities, saved_order \in SavedOrders, ws \in Workspaces :
          CalculateTargetColumn(identity, saved_order, ws)
    \/ \E w \in {x \in windows : x.title = "c"} :
          \E target_column \in 1..MaxColumn : MoveToColumn(w, target_column)

SpecOrder == InitOrder /\ [][NextOrder]_vars

----------------------------------------------------------------------------
(* The store under concurrent calls: every call is a sequence of steps, one  *)
(* per system call that other processes can observe                          *)

\* the calls the trackers and restorers of one desktop make at the same time
ConcUpserts ==
    LET w1 == CHOOSE w \in LiveWindows : w.id = 1
        w2 == CHOOSE w \in LiveWindows : w.id = 2
    IN  { [app |-> "tmux", workspace_id |-> 1,
           entries |-> <<TrackedEntry(StableId("tmux", "a"), w1)>>],
          [app |-> "mosh", workspace_id |-> 1,
           entries |-> <<TrackedEntry(StableId("mosh", "b"), w2)>>] }
Readers == {"lookup_latest_position", "find_predecessors",
            "resolve_predecessors_to_window_ids"}

\* a lock that excludes nobody
LockIgnored == TRUE

\* fcntl.flock(LOCK_EX) returns only while no other open file description holds the lock
LockFree == lock = <<>>

\* json.dump straight into the data file
TmpPathInPlace(p) == "positions.json"

\* tempfile.mkstemp(dir=path.parent, suffix=".json.tmp"): a fresh name per call
TmpPath(p) == p

\* positions.json holds the bytes of an unfinished json.dump
Torn == tmp["positions.json"] # <<>> /\ ~tmp["positions.json"][1].complete

\* a loader that reads whatever it can out of a malformed file
ParsesAlways == TRUE

\* json.load(f) returns: the file's text is a complete JSON document
Parses == ~Torn

\* a context manager that keeps the lock
ReleasedNever(p) == lock

\* PositionsLock.__exit__: fcntl.flock(LOCK_UN) and close
Released(p) == IF lock = <<p>> THEN <<>> ELSE lock

\* an except handler that leaves the temporary file behind
TmpAfterFailureKept(t) == t

\* save_positions, except BaseException: os.unlink(tmp_path) if it exists
TmpAfterFailure(t) == <<>>

\* the steps a process runs between PositionsLock.__enter__ and __exit__
Critical(p) ==
    \/ pc[p] \in {"load", "write_tmp", "flush", "rename", "release"}
    \/ pc[p] \in {"boot_exists", "boot_read", "boot_open", "boot_write"}
         /\ loc[p].op = "upsert_entries"

Goto(p, label) == pc' = [pc EXCEPT ![p] = label]
Frame(op, after) ==
    [op |-> op, after |-> after, data |-> PositionsFile, boot_id |-> 0,
     existed |-> FALSE, cause |-> "none"]

StartUpsert(p, c) ==
    /\ pc[p] = "idle"
    /\ ops < MaxOps
    /\ ops' = ops + 1
    /\ Goto(p, "acquire")
    /\ loc' = [loc EXCEPT ![p] =
                 [op |-> "upsert_entries", after |-> "write_tmp", data |-> PositionsFile,
                  boot_id |-> 0, existed |-> FALSE, cause |-> "none", app |-> c.app,
                  workspace_id |-> c.workspace_id, entries |-> c.entries]]
    /\ UNCHANGED <<positions, fileExists, bootFile, minted, clock, last, lastWs, wm, idm,
                   lock, tmp, hist>>

\* track_terminals: positions.prune_dominated_boots(positions.get_boot_id())
StartPrune(p) ==
    /\ pc[p] = "idle"
    /\ ops < MaxOps
    /\ ops' = ops + 1
    /\ Goto(p, "boot_exists")
    /\ loc' = [loc EXCEPT ![p] = Frame("prune_dominated_boots", "acquire")]
    /\ UNCHANGED <<positions, fileExists, bootFile, minted, clock, last, lastWs, wm, idm,
                   lock, tmp, hist>>

StartRead(p, reader) ==
    /\ pc[p] = "idle"
    /\ ops < MaxOps
    /\ ops' = ops + 1
    /\ Goto(p, "read")
    /\ loc' = [loc EXCEPT ![p] = Frame(reader, "idle")]
    /\ UNCHANGED <<positions, fileExists, bootFile, minted, clock, last, lastWs, wm, idm,
                   lock, tmp, hist>>

\* PositionsLock.__enter__
Acquire(p) ==
    /\ pc[p] = "acquire"
    /\ LockFree
    /\ lock' = <<p>>
    /\ Goto(p, "load")
    /\ UNCHANGED <<positions, fileExists, bootFile, minted, clock, ops, last, lastWs, wm, idm,
                   loc, tmp, hist>>

\* data = load_positions() of a writer; a prune that finds nothing to delete
\* returns without saving; json.load raises on a malformed file
Load(p) ==
    /\ pc[p] = "load"
    /\ LET data == load_positions
           saves == PruneSaves(data, loc[p].boot_id)
           seq_saves == PruneSaves(hist.seq, loc[p].boot_id)
       IN  IF fileExists /\ ~Parses
           THEN /\ loc' = [loc EXCEPT ![p].cause = "load"]
                /\ Goto(p, "raise")
                /\ UNCHANGED hist
           ELSE /\ loc' = [loc EXCEPT ![p].data = data, ![p].existed = fileExists]
                /\ IF loc[p].op = "upsert_entries"
                   THEN Goto(p, "boot_exists") /\ UNCHANGED hist
                   ELSE /\ Goto(p, IF saves THEN "write_tmp" ELSE "release")
                        /\ hist' = IF ~saves /\ seq_saves
                                   THEN [hist EXCEPT !.seq =
                                           prune_dominated_boots(hist.seq, loc[p].boot_id)]
                                   ELSE hist
    /\ UNCHANGED <<positions, fileExists, bootFile, minted, clock, ops, last, lastWs, wm, idm,
                   lock, tmp>>

\* data = load_positions() of a reader, which takes no lock
Read(p) ==
    /\ pc[p] = "read"
    /\ last' = [op |-> "load_positions", reader |-> loc[p].op, torn |-> Torn,
                data |-> load_positions, committed |-> hist.seq,
                racing |-> {q \in Processes \ {p} : pc[q] \in {"flush", "rename"}},
                leftover |-> {q \in Processes : tmp[q] # <<>> /\ pc[q] = "idle"}]
    /\ IF fileExists /\ ~Parses
       THEN /\ Goto(p, "raise")
            /\ loc' = [loc EXCEPT ![p].cause = "load"]
       ELSE IF loc[p].op = "resolve_predecessors_to_window_ids"
       THEN /\ Goto(p, "boot_exists")
            /\ loc' = [loc EXCEPT ![p].data = load_positions]
       ELSE /\ Goto(p, "idle")
            /\ loc' = [loc EXCEPT ![p] = [op |-> "none"]]
    /\ UNCHANGED <<positions, fileExists, bootFile, minted, clock, ops, lastWs, wm, idm,
                   lock, tmp, hist>>

\* get_boot_id: boot_file.exists(), and str(uuid4()) if it does not
BootExists(p) ==
    /\ pc[p] = "boot_exists"
    /\ IF bootFile # <<>>
       THEN Goto(p, "boot_read") /\ UNCHANGED <<minted, loc>>
       ELSE /\ minted < MaxBoots
            /\ minted' = minted + 1
            /\ loc' = [loc EXCEPT ![p].boot_id = minted + 1]
            /\ Goto(p, "boot_open")
    /\ UNCHANGED <<positions, fileExists, bootFile, clock, ops, last, lastWs, wm, idm,
                   lock, tmp, hist>>

\* the call returns boot_id and its caller goes on
Return(p, boot_id, boot_file) ==
    /\ hist' = [hist EXCEPT !.returned = @ \cup {boot_id}]
    /\ last' = [op |-> "get_boot_id", ret |-> boot_id, boot_file |-> boot_file,
                returned |-> hist.returned]
    /\ IF loc[p].after = "idle"
       THEN Goto(p, "idle") /\ loc' = [loc EXCEPT ![p] = [op |-> "none"]]
       ELSE Goto(p, loc[p].after) /\ loc' = [loc EXCEPT ![p].boot_id = boot_id]

\* get_boot_id: return boot_file.read_text().strip(); an empty file reads as ""
BootRead(p) ==
    /\ pc[p] = "boot_read"
    /\ Return(p, bootFile[1], bootFile)
    /\ UNCHANGED <<positions, fileExists, bootFile, minted, clock, ops, lastWs, wm, idm,
                   lock, tmp>>

\* get_boot_id: boot_file.write_text(boot_id) opens the file for writing, which
\* creates it empty (0 stands for the empty text) ...
BootOpen(p) ==
    /\ pc[p] = "boot_open"
    /\ bootFile' = <<0>>
    /\ Goto(p, "boot_write")
    /\ UNCHANGED <<positions, fileExists, minted, clock, ops, last, lastWs, wm, idm,
                   lock, loc, tmp, hist>>

\* ... and then writes the id
BootWrite(p) ==
    /\ pc[p] = "boot_write"
    /\ bootFile' = <<loc[p].boot_id>>
    /\ Return(p, loc[p].boot_id, <<loc[p].boot_id>>)
    /\ UNCHANGED <<positions, fileExists, minted, clock, ops, lastWs, wm, idm, lock, tmp>>

\* the mutation of the loaded data, then save_positions up to the first bytes
\* of json.dump in the temporary file
WriteTmp(p) ==
    /\ pc[p] = "write_tmp"
    /\ LET f == loc[p]
           now == clock + 1
           new == IF f.op = "upsert_entries"
                  THEN upsert_entries(f.data, f.boot_id, now, f.app, f.workspace_id,
                                      f.entries)
                  ELSE prune_dominated_boots(f.data, f.boot_id)
       IN  /\ clock' = IF f.op = "upsert_entries" THEN now ELSE clock
           /\ tmp' = [tmp EXCEPT ![TmpPath(p)] = <<[data |-> new, complete |-> FALSE]>>]
           /\ loc' = [loc EXCEPT ![p] = [k \in DOMAIN f \cup {"now"} |->
                                           IF k = "now" THEN now ELSE f[k]]]
    /\ Goto(p, "flush")
    /\ UNCHANGED <<positions, fileExists, bootFile, minted, ops, last, lastWs, wm, idm,
                   lock, hist>>

\* json.dump has written everything and the file is closed
Flush(p) ==
    /\ pc[p] = "flush"
    /\ tmp' = [tmp EXCEPT ![TmpPath(p)] = <<[@[1] EXCEPT !.complete = TRUE]>>]
    /\ Goto(p, "rename")
    /\ UNCHANGED <<positions, fileExists, bootFile, minted, clock, ops, last, lastWs, wm, idm,
                   lock, loc, hist>>

\* os.rename(tmp_path, path)
Rename(p) ==
    /\ pc[p] = "rename"
    /\ LET f == loc[p]
           new == tmp[TmpPath(p)][1].data
       IN  /\ positions' = new
           /\ hist' = [hist EXCEPT
                 !.seq = IF f.op = "upsert_entries"
                         THEN upsert_entries(@, f.boot_id, f.now, f.app, f.workspace_id,
                                             f.entries)
                         ELSE prune_dominated_boots(@, f.boot_id),
                 !.done = IF f.op = "upsert_entries"
                          THEN @ \cup {[boot_id |-> f.boot_id,
                                        workspace_id |-> f.workspace_id,
                                        entries |-> f.entries]}
                          ELSE @]
           /\ last' = [op |-> "save_positions", call |-> f.op, base |-> f.data,
                       before |-> load_positions, after |-> new,
                       others |-> hist.done]
    /\ fileExists' = TRUE
    /\ tmp' = [tmp EXCEPT ![TmpPath(p)] = <<>>, !["positions.json"] = <<>>]
    /\ Goto(p, "release")
    /\ UNCHANGED <<bootFile, minted, clock, ops, lastWs, wm, idm, lock, loc>>

\* PositionsLock.__exit__
Release(p) ==
    /\ pc[p] = "release"
    /\ lock' = Released(p)
    /\ Goto(p, "idle")
    /\ loc' = [loc EXCEPT ![p] = [op |-> "none"]]
    /\ UNCHANGED <<positions, fileExists, bootFile, minted, clock, ops, last, lastWs, wm, idm,
                   tmp, hist>>

\* a writer is killed inside the lock: the kernel closes its files, which drops
\* the flock; what it wrote so far stays on disk
Crash(p) ==
    /\ Critical(p)
    /\ lock' = IF lock = <<p>> THEN <<>> ELSE lock
    /\ Goto(p, "idle")
    /\ loc' = [loc EXCEPT ![p] = [op |-> "none"]]
    /\ UNCHANGED <<positions, fileExists, bootFile, minted, clock, ops, last, lastWs, wm, idm,
                   tmp, hist>>

\* the login session ends while no call is running
Logout ==
    /\ \A p \in Processes : pc[p] = "idle"
    /\ bootFile # <<>>
    /\ minted < MaxBoots
    /\ bootFile' = <<>>
    /\ hist' = [hist EXCEPT !.returned = {}]
    /\ UNCHANGED <<positions, fileExists, minted, clock, ops, last, lastWs, wm, idm,
                   lock, pc, loc, tmp>>

NextConc ==
    \/ \E p \in Processes :
          \/ \E c \in ConcUpserts : StartUpsert(p, c)
          \/ StartPrune(p)
          \/ \E reader \in Readers : StartRead(p, reader)
          \/ Acquire(p)
          \/ Load(p)
          \/ Read(p)
          \/ BootExists(p)
          \/ BootRead(p)
          \/ BootOpen(p)
          \/ BootWrite(p)
          \/ WriteTmp(p)
          \/ Flush(p)
          \/ Rename(p)
          \/ Release(p)
          \/ Crash(p)
    \/ Logout

SpecConc == Init /\ [][NextConc]_vars

----------------------------------------------------------------------------
(* The store calls with their error paths: a positions file that may hold     *)
(* malformed JSON when the calls start, and writes that may fail              *)

InitFault ==
    /\ IdmInit
    /\ lock = <<>>
    /\ pc = [p \in Processes |-> "idle"]
    /\ loc = [p \in Processes |-> [op |-> "none"]]
    /\ hist = [seq |-> PositionsFile, done |-> {}, returned |-> {}]
    /\ \E malformed \in BOOLEAN :
          /\ fileExists = malformed
          /\ tmp = [f \in WritePaths |->
                      IF malformed /\ f = "positions.json"
                      THEN <<[data |-> PositionsFile, complete |-> FALSE]>>
                      ELSE <<>>]
    /\ positions = PositionsFile
    /\ bootFile = <<>>
    /\ minted = 0
    /\ clock = 0
    /\ ops = 0
    /\ last = [op |-> "none"]
    /\ lastWs = [id \in StableIds |-> {}]
    /\ windows = {}
    /\ focused = <<>>

\* save_positions raises: mkstemp, json.dump or os.rename fails (disk full,
\* permissions, ...); the except handler removes the temporary file and re-raises
SaveFails(p) ==
    /\ pc[p] \in {"write_tmp", "flush", "rename"}
    /\ tmp' = [tmp EXCEPT ![TmpPath(p)] = TmpAfterFailure(@)]
    /\ loc' = [loc EXCEPT ![p].cause = "save"]
    /\ Goto(p, "raise")
    /\ UNCHANGED <<positions, fileExists, bootFile, minted, clock, ops, last, lastWs, wm, idm,
                   lock, hist>>

\* the exception leaves the call: PositionsLock.__exit__ runs if the call is
\* inside the with block, and the caller gets the exception
Unwind(p) ==
    /\ pc[p] = "raise"
    /\ lock' = Released(p)
    /\ last' = [op |-> "raised", proc |-> p, call |-> loc[p].op, cause |-> loc[p].cause]
    /\ Goto(p, "idle")
    /\ loc' = [loc EXCEPT ![p] = [op |-> "none"]]
    /\ UNCHANGED <<positions, fileExists, bootFile, minted, clock, ops, lastWs, wm, idm,
                   tmp, hist>>

\* what a process does once it is inside a call
Step(p) ==
    \/ Acquire(p)
    \/ Load(p)
    \/ Read(p)
    \/ BootExists(p)
    \/ BootRead(p)
    \/ BootOpen(p)
    \/ BootWrite(p)
    \/ WriteTmp(p)
    \/ Flush(p)
    \/ Rename(p)
    \/ Release(p)
    \/ Unwind(p)

NextFault ==
    \E p \in Processes :
        \/ \E c \in ConcUpserts : StartUpsert(p, c)
        \/ StartPrune(p)
        \/ \E reader \in Readers : StartRead(p, reader)
        \/ Step(p)
        \/ SaveFails(p)

SpecFault == InitFault /\ [][NextFault]_vars

\* every process that can take a step is scheduled again; a failing write is
\* never forced
SpecFaultFair == SpecFault /\ \A p \in Processes : WF_vars(Step(p))

----------------------------------------------------------------------------
(* librewolf.py: UrlMatcher *)

IdentityEntry(uuid, urls) == [uuid |-> uuid, urls |-> urls]
IdentitiesFile(file_entries) == [version |-> 1, entries |-> file_entries]

\* the tab URL lists of the browser windows a run asks about
UrlLists == {<<>>, <<"a">>, <<"a", "b">>, <<"b", "b">>, <<"c">>}

\* the identities files earlier runs have left: none, or entries with uuids
\* minted earlier (the n-th uuid4 is n)
StoredFiles ==
    { <<>>,
      <<IdentitiesFile(<<IdentityEntry(1, <<"a", "b">>)>>)>>,
      <<IdentitiesFile(<<IdentityEntry(1, <<"a">>), IdentityEntry(2, <<"a", "b">>)>>)>>,
      <<IdentitiesFile(<<IdentityEntry(1, <<"b">>), IdentityEntry(2, <<"c", "a">>)>>)>> }

\* UrlMatcher.__init__: available = set(range(len(entries)))
UrlMatcher(file_entries) ==
    [entries |-> file_entries, available |-> 0..(Len(file_entries) - 1)]

\* UrlMatcher.load
UrlMatcher_load ==
    IF idFile # <<>> THEN UrlMatcher(idFile[1].entries) ELSE UrlMatcher(<<>>)

min(S) == CHOOSE x \in S : \A y \in S : x <= y
max(S) == CHOOSE x \in S : \A y \in S : x >= y

\* the first candidate with any overlap wins
BetterFirstHit(overlap, best_overlap) == overlap > 0 /\ best_overlap = 0

\* if overlap > best_overlap
Better(overlap, best_overlap) == overlap > best_overlap

\* for i in self.available: a set of small ints iterates in ascending order
RECURSIVE BestLoop(_, _, _, _, _)
BestLoop(self_entries, url_set, todo, best_idx, best_overlap) ==
    IF todo = {} THEN [best_idx |-> best_idx, best_overlap |-> best_overlap]
    ELSE LET i == min(todo)
             entry_urls == Range(self_entries[i + 1].urls)
             overlap == Cardinality(url_set \cap entry_urls)
         IN  IF Better(overlap, best_overlap)
             THEN BestLoop(self_entries, url_set, todo \ {i}, <<i>>, overlap)
             ELSE BestLoop(self_entries, url_set, todo \ {i}, best_idx, best_overlap)

\* the highest available index instead of the lowest
first_available_max(self_available) == max(self_available)

\* first_available = min(self.available)
first_available(self_available) == min(self_available)

\* the entry is taken out and put back at the end of the list
OverwriteMoved(self_entries, idx, urls) ==
    Append(SubSeq(self_entries, 1, idx) \o SubSeq(self_entries, idx + 2, Len(self_entries)),
           IdentityEntry(self_entries[idx + 1].uuid, urls))

\* self.entries[idx].urls = urls
Overwrite(self_entries, idx, urls) == [self_entries EXCEPT ![idx + 1].urls = urls]

\* a call that mints whenever nothing overlaps
match_or_create_no_fallback(self, urls, new_uuid) ==
    LET best == BestLoop(self.entries, Range(urls), self.available, <<>>, 0)
    IN  IF best.best_idx # <<>> /\ best.best_overlap > 0
        THEN [entries |-> Overwrite(self.entries, best.best_idx[1], urls),
              available |-> self.available \ {best.best_idx[1]},
              ret |-> self.entries[best.best_idx[1] + 1].uuid]
        ELSE [entries |-> Append(self.entries, IdentityEntry(new_uuid, urls)),
              available |-> self.available,
              ret |-> new_uuid]

\* the index stays in the pool
available_kept(self_available, idx) == self_available

\* self.available.remove(idx)
available_remove(self_available, idx) == self_available \ {idx}

\* UrlMatcher.match_or_create; new_uuid is the uuid4 it would mint
match_or_create(self, urls, new_uuid) ==
    LET url_set == Range(urls)
        best == BestLoop(self.entries, url_set, self.available, <<>>, 0)
    IN  IF best.best_idx # <<>> /\ best.best_overlap > 0
        THEN LET best_idx == best.best_idx[1]
             IN  [entries |-> Overwrite(self.entries, best_idx, urls),
                  available |-> available_remove(self.available, best_idx),
                  ret |-> self.entries[best_idx + 1].uuid]
        ELSE IF self.available # {}
        THEN LET idx == first_available(self.available)
             IN  [entries |-> Overwrite(self.entries, idx, urls),
                  available |-> available_remove(self.available, idx),
                  ret |-> self.entries[idx + 1].uuid]
        ELSE [entries |-> Append(self.entries, IdentityEntry(new_uuid, urls)),
              available |-> self.available,
              ret |-> new_uuid]

\* a save that writes a file without entries
UrlMatcher_save_empty(self) == <<IdentitiesFile(<<>>)>>

\* UrlMatcher.save: the file after os.rename
UrlMatcher_save(self) == <<IdentitiesFile(self.entries)>>

----------------------------------------------------------------------------
(* The state machine of the matcher runs: a run is a load, any number of     *)
(* match_or_create calls and saves                                           *)

others == <<positions, fileExists, bootFile, minted, clock, lastWs, windows, focused,
            lock, pc, loc, tmp, hist>>

InitMatch ==
    /\ ConcInit
    /\ positions = PositionsFile
    /\ fileExists = FALSE
    /\ bootFile = <<>>
    /\ minted = 0
    /\ clock = 0
    /\ ops = 0
    /\ last = [op |-> "none"]
    /\ lastWs = [id \in StableIds |-> {}]
    /\ windows = {}
    /\ focused = <<>>
    /\ idFile \in StoredFiles
    /\ matcher = UrlMatcher_load
    /\ uuids = Len(matcher.entries)
    /\ run = [n |-> Len(matcher.entries), calls |-> <<>>, saved |-> <<>>, prev |-> NoRun]

\* matcher = UrlMatcher.load(): a new run begins
MatcherLoad ==
    /\ matcher' = UrlMatcher_load
    /\ run' = [n |-> Len(matcher'.entries), calls |-> <<>>, saved |-> <<>>,
               prev |-> [n |-> run.n, calls |-> run.calls, saved |-> run.saved]]
    /\ last' = [op |-> "load", pre |-> matcher, post |-> matcher']
    /\ UNCHANGED <<idFile, uuids, ops, others>>

\* uuid = matcher.match_or_create(urls)
MatchOrCreate(urls) ==
    /\ ops < MaxOps
    /\ LET r == match_or_create(matcher, urls, uuids + 1)
       IN  /\ matcher' = [entries |-> r.entries, available |-> r.available]
           /\ uuids' = IF Len(r.entries) > Len(matcher.entries) THEN uuids + 1 ELSE uuids
           /\ run' = [run EXCEPT !.calls = Append(@, [urls |-> urls, ret |-> r.ret])]
           /\ last' = [op |-> "match_or_create", urls |-> urls, ret |-> r.ret,
                       pre |-> matcher, post |-> matcher',
                       call_no |-> Len(run.calls) + 1, prev |-> run.prev]
    /\ ops' = ops + 1
    /\ UNCHANGED <<idFile, others>>

\* matcher.save()
MatcherSave ==
    /\ idFile' = UrlMatcher_save(matcher)
    /\ run' = [run EXCEPT !.saved = <<Len(run.calls)>>]
    /\ last' = [op |-> "save", before |-> idFile, after |-> idFile']
    /\ UNCHANGED <<matcher, uuids, ops, others>>

NextMatch ==
    \/ MatcherLoad
    \/ \E urls \in UrlLists : MatchOrCreate(urls)
    \/ MatcherSave

SpecMatch == InitMatch /\ [][NextMatch]_vars

----------------------------------------------------------------------------
(* Two native-messaging hosts running handle_store or handle_restore at the  *)
(* same time: each loads its own matcher, matches its windows and saves      *)

hostFrame == <<positions, fileExists, bootFile, minted, clock, lastWs, windows, focused,
               lock, tmp, matcher, run>>

\* the tab URL lists of the windows in the hosts' messages
HostUrlLists == {<<"a">>, <<"c">>}

\* matcher = UrlMatcher.load()
HostLoad(p) ==
    /\ pc[p] = "idle"
    /\ Goto(p, "matching")
    /\ loc' = [loc EXCEPT ![p] =
                 [op |-> "handle_store", entries |-> UrlMatcher_load.entries,
                  available |-> UrlMatcher_load.available, created |-> {}]]
    /\ UNCHANGED <<idFile, uuids, ops, last, hist, hostFrame>>

\* uuid = matcher.match_or_create(urls), once per window of the message
HostMatch(p, urls) ==
    /\ pc[p] = "matching"
    /\ ops < MaxOps
    /\ LET self == loc[p]
           r == match_or_create(self, urls, uuids + 1)
           minted_one == Len(r.entries) > Len(self.entries)
       IN  /\ loc' = [loc EXCEPT ![p] =
                        [op |-> self.op, entries |-> r.entries, available |-> r.available,
                         created |-> IF minted_one THEN self.created \cup {r.ret}
                                     ELSE self.created]]
           /\ uuids' = IF minted_one THEN uuids + 1 ELSE uuids
           /\ last' = [op |-> "match_or_create", proc |-> p, urls |-> urls, ret |-> r.ret]
    /\ ops' = ops + 1
    /\ UNCHANGED <<idFile, pc, hist, hostFrame>>

\* matcher.save(), the last statement of the handler
HostSave(p) ==
    /\ pc[p] = "matching"
    /\ idFile' = UrlMatcher_save(loc[p])
    /\ hist' = [hist EXCEPT !.done = @ \cup {[proc |-> p, created |-> loc[p].created]}]
    /\ last' = [op |-> "save", proc |-> p, before |-> idFile, after |-> idFile',
                created |-> loc[p].created]
    /\ Goto(p, "idle")
    /\ loc' = [loc EXCEPT ![p] = [op |-> "none"]]
    /\ UNCHANGED <<uuids, ops, hostFrame>>

NextHosts ==
    \E p \in Processes :
        \/ HostLoad(p)
        \/ \E urls \in HostUrlLists : HostMatch(p, urls)
        \/ HostSave(p)

SpecHosts == InitMatch /\ [][NextHosts]_vars

----------------------------------------------------------------------------
(* restore.py: restore_tmux and restore_mosh *)

\* the terminal window spawn_terminal opens for a session
TerminalOf(stable_id) == CHOOSE m \in Terminals : IdentityOf(m.id) = stable_id

\* spawn_terminal: the new window becomes the last column of the workspace the
\* user is looking at
Spawned(W, m, workspace_id) ==
    W \cup {Window(m, workspace_id, <<LastColumn(W, workspace_id) + 1>>)}

\* ipc.configure: move-window-to-workspace --focus false (the window becomes the
\* last column of the workspace it enters), then set-window-width
Configured(W, window_id, workspace_id, width) ==
    LET w == CHOOSE x \in W : x.id = window_id
        sized == [w EXCEPT !.tile_width = (width * Output.width) \div 100]
    IN  IF w.workspace_id = workspace_id THEN (W \ {w}) \cup {sized}
        ELSE Without(W, w) \cup
                {[sized EXCEPT !.workspace_id = workspace_id,
                               !.column = <<LastColumn(W, workspace_id) + 1>>]}

\* _get_window_column: None (<<>>) if the window is not in the workspace
RECURSIVE _get_window_column(_, _, _)
_get_window_column(list, window_id, workspace_id) ==
    IF list = <<>> THEN <<>>
    ELSE IF Head(list).id = window_id /\ Head(list).workspace_id = workspace_id
         THEN Head(list).column
         ELSE _get_window_column(Tail(list), window_id, workspace_id)

\* a restorer that waits for the window whatever lookup returned
ShouldRestoreAlways(props) == TRUE

\* if props:
ShouldRestore(props) == props # <<>>

\* PositionEntry(id=stable_id, index=column, ...): the column read before place_window
RecordedIndex(column, column_after) == column

\* one iteration of the loop over the sessions. state is the window manager's,
\* spawn_ws the workspace the terminal opens in, outcome what the window manager
\* does: "ok", "timeout" (wait_for_window gives up) or "raise" (niri msg fails in
\* ipc.configure)
restore_session(data, boot_id, state, stable_id, spawn_ws, outcome) ==
    LET m == TerminalOf(stable_id)
        props == lookup_latest_position(data, stable_id)
        spawned == Spawned(state.windows, m, spawn_ws)
        skipped(waited, raised) ==
            [windows |-> spawned, focused |-> state.focused, props |-> props,
             spawned |-> TRUE, waited |-> waited, configured |-> FALSE,
             raised |-> raised, placed |-> FALSE, cmds |-> <<>>, entry |-> <<>>,
             column_after |-> <<>>]
    IN  IF ~ShouldRestore(props) THEN skipped(FALSE, FALSE)
        ELSE IF outcome = "timeout" \/ props = <<>>   \* window_id is None
             THEN skipped(TRUE, FALSE)
        ELSE IF outcome = "raise" THEN skipped(TRUE, TRUE)
        ELSE LET workspace_id == props[1].workspace_id
                 configured == Configured(spawned, m.id, workspace_id, props[1].width)
                 column == _get_window_column(get_windows(configured), m.id, workspace_id)
             IN  IF column = <<>>
                 THEN [skipped(TRUE, FALSE) EXCEPT !.windows = configured,
                                                   !.configured = TRUE]
                 ELSE LET r == place_window(data, boot_id, configured, m.id, stable_id,
                                            workspace_id, column[1])
                          after == RunCommands([windows |-> configured,
                                                focused |-> state.focused], r.cmds)
                          column_after ==
                              _get_window_column(get_windows(after.windows), m.id,
                                                 workspace_id)
                      IN  [windows |-> after.windows, focused |-> after.focused,
                           props |-> props, spawned |-> TRUE, waited |-> TRUE,
                           configured |-> TRUE, raised |-> FALSE, placed |-> TRUE,
                           cmds |-> r.cmds,
                           entry |-> <<[ws |-> workspace_id,
                                        e |-> PositionEntry(
                                                stable_id,
                                                RecordedIndex(column[1], column_after[1]),
                                                m.id, props[1].width)]>>,
                           column_after |-> column_after]

\* restored_entries[workspace_id].append(entry)
AppendRestored(restored, workspace_id, entry) ==
    IF DictHas(restored, workspace_id)
    THEN DictSet(restored, workspace_id, Append(DictGet(restored, workspace_id), entry))
    ELSE Append(restored, [k |-> workspace_id, v |-> <<entry>>])

\* for workspace_id, entries in restored_entries.items(): positions.upsert_entries(...)
RECURSIVE UpsertRestored(_, _, _, _, _, _)
UpsertRestored(data, boot_id, now, d, app, restored) ==
    IF restored = <<>> THEN [data |-> data, now |-> now]
    ELSE UpsertRestored(upsert_entries(data, boot_id, now + d, app, Head(restored).k,
                                       Head(restored).v),
                        boot_id, now + d, d, app, Tail(restored))

----------------------------------------------------------------------------
(* The state machine of the restorers: after a login, restore_tmux and       *)
(* restore_mosh run over the sessions that have no terminal yet              *)

\* the layouts the tracker recorded in the boot before this login
PreviousLayouts ==
    LET t(title) == CHOOSE m \in Terminals : m.title = title
    IN  { {Window(SpacerWindow, 1, <<1>>), Window(t("a"), 1, <<2>>),
           Window(t("c"), 1, <<3>>), Window(t("b"), 1, <<4>>)},
          {Window(SpacerWindow, 1, <<1>>), Window(t("c"), 1, <<2>>),
           Window(t("a"), 1, <<3>>)},
          {Window(SpacerWindow, 1, <<1>>), Window(t("b"), 1, <<2>>),
           Window(t("a"), 2, <<1>>), Window(t("c"), 2, <<2>>)},
          {Window(SpacerWindow, 1, <<1>>), Window(t("a"), 1, <<2>>)} }

\* what tmux list-sessions / the moshen state file list, in their order
SessionLists(app) ==
    IF app = "tmux"
    THEN {<<StableId("tmux", "a"), StableId("tmux", "c")>>,
          <<StableId("tmux", "c"), StableId("tmux", "a")>>,
          <<StableId("tmux", "a")>>, <<StableId("tmux", "c")>>}
    ELSE {<<StableId("mosh", "b")>>}
Outcomes == {"ok", "timeout", "raise"}

InitRestore ==
    /\ ConcInit
    /\ IdmInit
    /\ \E W \in PreviousLayouts :
          LET r == track_terminals(PositionsFile, 1, W, 0, 1)
          IN  positions = r.data /\ clock = r.now
    /\ fileExists = TRUE
    /\ bootFile = <<>>
    /\ minted = 1
    /\ ops = 0
    /\ last = [op |-> "none"]
    /\ lastWs = [id \in StableIds |-> {}]
    /\ windows = {Window(SpacerWindow, 1, <<1>>)}
    /\ focused = <<>>

restoreFrame == <<lock, tmp, hist, idm, lastWs>>

\* sessions = get_detached_tmux_sessions() / read_moshen_sessions()
RestoreStart(app, sessions) ==
    /\ pc["p1"] = "idle"
    /\ ops < MaxOps
    /\ \A i \in DOMAIN sessions : \A w \in windows : w.id # TerminalOf(sessions[i]).id
    /\ ops' = ops + 1
    /\ Goto("p1", "restoring")
    /\ loc' = [loc EXCEPT !["p1"] =
                 [op |-> "restore", app |-> app, sessions |-> sessions, todo |-> sessions,
                  restored_entries |-> <<>>, store0 |-> load_positions]]
    /\ UNCHANGED <<positions, fileExists, bootFile, minted, clock, last, windows, focused,
                   restoreFrame>>

\* the body of the loop for the next session; an exception leaves the restorer
RestoreSession(spawn_ws, outcome) ==
    /\ pc["p1"] = "restoring"
    /\ loc["p1"].todo # <<>>
    /\ LET f == loc["p1"]
           stable_id == Head(f.todo)
           r == restore_session(load_positions, get_boot_id,
                                [windows |-> windows, focused |-> focused],
                                stable_id, spawn_ws, outcome)
       IN  /\ windows' = r.windows
           /\ focused' = r.focused
           /\ IF r.placed THEN WriteBootFile ELSE UNCHANGED <<bootFile, minted>>
           /\ IF r.raised
              THEN /\ Goto("p1", "idle")
                   /\ loc' = [loc EXCEPT !["p1"] = [op |-> "none"]]
                   /\ last' = [op |-> "restore_end", app |-> f.app, raised |-> TRUE,
                               sessions |-> f.sessions, todo |-> Tail(f.todo),
                               restored_entries |-> f.restored_entries,
                               store0 |-> f.store0, data |-> load_positions,
                               boot_id |-> get_boot_id]
              ELSE /\ UNCHANGED pc
                   /\ loc' = [loc EXCEPT !["p1"].todo = Tail(f.todo),
                                         !["p1"].restored_entries =
                                             IF r.entry = <<>> THEN @
                                             ELSE AppendRestored(@, r.entry[1].ws,
                                                                 r.entry[1].e)]
                   /\ last' = [op |-> "restore_session", stable_id |-> stable_id,
                               outcome |-> outcome, before |-> windows, r |-> r,
                               restored_before |-> f.restored_entries,
                               todo |-> Tail(f.todo)]
    /\ UNCHANGED <<positions, fileExists, clock, ops, restoreFrame>>

\* after the loop: one upsert per workspace, then the prune
RestoreFinish ==
    /\ pc["p1"] = "restoring"
    /\ loc["p1"].todo = <<>>
    /\ LET f == loc["p1"]
       IN  /\ IF f.restored_entries = <<>>
              THEN UNCHANGED <<positions, fileExists, bootFile, minted, clock>>
              ELSE /\ WriteBootFile
                   /\ \E d \in Elapsed :
                        LET u == UpsertRestored(load_positions, get_boot_id, clock, d,
                                                f.app, f.restored_entries)
                        IN  /\ positions' = IF PruneSaves(u.data, get_boot_id)
                                            THEN prune_dominated_boots(u.data, get_boot_id)
                                            ELSE u.data
                            /\ clock' = u.now
                   /\ fileExists' = TRUE
           /\ last' = [op |-> "restore_end", app |-> f.app, raised |-> FALSE,
                       sessions |-> f.sessions, todo |-> <<>>,
                       restored_entries |-> f.restored_entries,
                       store0 |-> f.store0, data |-> positions',
                       boot_id |-> get_boot_id]
    /\ Goto("p1", "idle")
    /\ loc' = [loc EXCEPT !["p1"] = [op |-> "none"]]
    /\ UNCHANGED <<ops, windows, focused, restoreFrame>>

NextRestore ==
    \/ \E app \in {"tmux", "mosh"} : \E sessions \in SessionLists(app) :
          RestoreStart(app, sessions)
    \/ \E spawn_ws \in Workspaces, outcome \in Outcomes : RestoreSession(spawn_ws, outcome)
    \/ RestoreFinish

SpecRestore == InitRestore /\ [][NextRestore]_vars

----------------------------------------------------------------------------
(* retainer.py: the retention algorithm. A datetime is a number of days, a  *)
(* timedelta a number of days, an element a file with its timestamp         *)

MaxDay == 6
FileNames == {"f1", "f2", "f3"}
Element(path, timestamp) == [path |-> path, timestamp |-> timestamp]
get_element_timestamp(el) == el.timestamp

\* the element sets: every file present has one timestamp
ElementSets ==
    UNION {{{Element(n, t[n]) : n \in N} : t \in [N -> 0..MaxDay]} : N \in SUBSET FileNames}

\* the orders in which Python may iterate over a set
IterationOrders(S) == {q \in [1..Cardinality(S) -> S] : Range(q) = S}

\* a filter that also takes the element at the start of the preserved window
DeletableInclusive(timestamp, start_of_preserved_window) ==
    timestamp <= start_of_preserved_window

\* get_element_timestamp(el) < start_of_preserved_window
Deletable(timestamp, start_of_preserved_window) ==
    timestamp < start_of_preserved_window

\* _gen_buckets and the loop of _group_deletable_by_buckets over it: the sets
\* yielded, in order
RECURSIVE BucketLoop(_, _, _, _, _)
BucketLoop(start_of_bucket, bucket_size, deletable_elements, max_bucket_size, exponential_factor) ==
    LET bucket_start == start_of_bucket - bucket_size
        els_in_bucket == {el \in deletable_elements :
                             get_element_timestamp(el) >= bucket_start}
        rest == deletable_elements \ els_in_bucket
        grown == bucket_size * exponential_factor
        next_size == IF grown > max_bucket_size THEN max_bucket_size ELSE grown
    IN  <<els_in_bucket>> \o
        (IF rest = {} THEN <<>>
         ELSE BucketLoop(bucket_start, next_size, rest, max_bucket_size,
                         exponential_factor))

_group_deletable_by_buckets(start_of_preserved_window, deletable_elements, first_bucket_size, max_bucket_size, exponential_factor) ==
    BucketLoop(start_of_preserved_window, first_bucket_size,
               {el \in deletable_elements :
                   Deletable(get_element_timestamp(el), start_of_preserved_window)},
               max_bucket_size, exponential_factor)

\* the bucket in the order the set is iterated
unsorted(list) == list

\* sorted(list, key=get_element_timestamp): stable
RECURSIVE sorted(_)
sorted(list) ==
    IF list = <<>> THEN <<>>
    ELSE LET m == CHOOSE i \in DOMAIN list :
                    /\ \A j \in DOMAIN list :
                          get_element_timestamp(list[i]) <= get_element_timestamp(list[j])
                    /\ \A j \in 1..(i - 1) :
                          get_element_timestamp(list[j]) > get_element_timestamp(list[i])
         IN  <<list[m]>> \o
             sorted([k \in 1..(Len(list) - 1) |-> IF k < m THEN list[k] ELSE list[k + 1]])

\* a retention that keeps the latest element of a bucket
AllButLatest(sorted_bucket) == SubSeq(sorted_bucket, 1, Len(sorted_bucket) - 1)

\* sorted_bucket[1:]: keep earliest element in bucket
AllButEarliest(sorted_bucket) == SubSeq(sorted_bucket, 2, Len(sorted_bucket))

\* iter is the order in which the elements' set is iterated
_get_elements_to_delete(effective_date, elements, preserve_window, first_bucket_size, max_bucket_size, exponential_factor, iter) ==
    LET start_of_preserved_window == effective_date - preserve_window
        deletable_by_buckets ==
            _group_deletable_by_buckets(start_of_preserved_window, elements,
                                        first_bucket_size, max_bucket_size,
                                        exponential_factor)
        sorted_bucket(bucket) == sorted(SelectSeq(iter, LAMBDA el : el \in bucket))
    IN  UNION {Range(AllButEarliest(sorted_bucket(deletable_by_buckets[i])))
               : i \in DOMAIN deletable_by_buckets}

----------------------------------------------------------------------------
(* The state machine of one retention call: the arguments are drawn when the *)
(* call starts, the step computes the set to delete                          *)

RetainArgs ==
    [effective_date : {MaxDay - 1, MaxDay},
     elements : ElementSets,
     preserve_window : 0..2,
     first_bucket_size : {1, 2},
     max_bucket_size : {1, 2, 4},
     exponential_factor : {1, 2}]

InitRetain ==
    /\ ConcInit
    /\ IdmInit
    /\ positions = PositionsFile
    /\ fileExists = FALSE
    /\ bootFile = <<>>
    /\ minted = 0
    /\ clock = 0
    /\ ops = 0
    /\ \E args \in RetainArgs : last = [op |-> "args", args |-> args]
    /\ lastWs = [id \in StableIds |-> {}]
    /\ windows = {}
    /\ focused = <<>>

GetElementsToDelete ==
    /\ last.op = "args"
    /\ \E iter \in IterationOrders(last.args.elements) :
          last' = [op |-> "_get_elements_to_delete", args |-> last.args, iter |-> iter,
                   ret |-> _get_elements_to_delete(
                              last.args.effective_date, last.args.elements,
                              last.args.preserve_window, last.args.first_bucket_size,
                              last.args.max_bucket_size, last.args.exponential_factor,
                              iter)]
    /\ UNCHANGED <<positions, fileExists, bootFile, minted, clock, ops, lastWs, wm, conc,
                   idm>>

NextRetain == GetElementsToDelete

SpecRetain == InitRetain /\ [][NextRetain]_vars

----------------------------------------------------------------------------
(* A directory under retention: files are added with non-decreasing          *)
(* timestamps, retention runs with non-decreasing effective dates delete     *)
(* what _get_elements_to_delete returns                                       *)

SimNames == <<"f1", "f2", "f3">>
SimParams ==
    [preserve_window : {0, 1}, first_bucket_size : {1, 2}, max_bucket_size : {2, 4},
     exponential_factor : {1, 2}]

simFrame == <<positions, fileExists, bootFile, minted, clock, ops, lastWs, wm, lock, pc,
              tmp, hist, idm>>

InitSim ==
    /\ IdmInit
    /\ lock = <<>>
    /\ pc = [p \in Processes |-> "idle"]
    /\ tmp = [f \in WritePaths |-> <<>>]
    /\ hist = [seq |-> PositionsFile, done |-> {}, returned |-> {}]
    /\ positions = PositionsFile
    /\ fileExists = FALSE
    /\ bootFile = <<>>
    /\ minted = 0
    /\ clock = 0
    /\ ops = 0
    /\ lastWs = [id \in StableIds |-> {}]
    /\ windows = {}
    /\ focused = <<>>
    /\ last = [op |-> "none"]
    /\ \E params \in SimParams :
          loc = [p \in Processes |->
                   IF p = "p1"
                   THEN [op |-> "retainer", params |-> params, current_elements |-> {},
                         added |-> <<>>, next_addition |-> 0, next_deletion_run |-> 0]
                   ELSE [op |-> "none"]]

\* current_elements.add(next_addition): a new file, not older than the last one
SimAdd(timestamp) ==
    /\ Len(loc["p1"].added) < Len(SimNames)
    /\ timestamp >= loc["p1"].next_addition
    /\ LET el == Element(SimNames[Len(loc["p1"].added) + 1], timestamp)
       IN  /\ loc' = [loc EXCEPT !["p1"].current_elements = @ \cup {el},
                                 !["p1"].added = Append(@, el),
                                 !["p1"].next_addition = timestamp]
           /\ last' = [op |-> "add", el |-> el]
    /\ UNCHANGED simFrame

\* current_elements -= _get_elements_to_delete(next_deletion_run, current_elements, ...)
SimRun(effective_date) ==
    /\ effective_date >= loc["p1"].next_deletion_run
    /\ \E iter \in IterationOrders(loc["p1"].current_elements) :
          LET f == loc["p1"]
              elements_to_delete ==
                  _get_elements_to_delete(effective_date, f.current_elements,
                                          f.params.preserve_window,
                                          f.params.first_bucket_size,
                                          f.params.max_bucket_size,
                                          f.params.exponential_factor, iter)
          IN  /\ loc' = [loc EXCEPT !["p1"].current_elements = @ \ elements_to_delete,
                                    !["p1"].next_deletion_run = effective_date]
              /\ last' = [op |-> "run", effective_date |-> effective_date,
                          pre |-> f.current_elements, ret |-> elements_to_delete,
                          again |-> /\ last.op = "run"
                                    /\ last.effective_date = effective_date,
                          first |-> IF last.op = "run" THEN last.ret ELSE {}]
    /\ UNCHANGED simFrame

NextSim ==
    \/ \E timestamp \in 0..MaxDay : SimAdd(timestamp)
    \/ \E effective_date \in 0..MaxDay : SimRun(effective_date)

SpecSim == InitSim /\ [][NextSim]_vars

----------------------------------------------------------------------------
(* One retention call step by step: _get_elements_to_delete pulls one bucket *)
(* at a time out of _group_deletable_by_buckets, which pulls one bucket      *)
(* start at a time out of _gen_buckets. The day counts are whatever integers *)
(* argparse accepted                                                         *)

\* --preserve-days, --first-bucket-days, --max-bucket-days, --exponential-factor: type=int
CliArgs ==
    [preserve_window : {0, 1}, first_bucket_size : -1..2, max_bucket_size : -1..2,
     exponential_factor : -1..2]
CliElementSets ==
    {S \in ElementSets : \A el \in S : el.path \in {"f1", "f2"}}

\* the bucket starts the model follows: a start further out is not generated
StartRange == (0 - MaxDay)..(2 * MaxDay)

callFrame == <<positions, fileExists, bootFile, minted, clock, ops, lastWs, wm, lock, tmp,
               hist, idm>>

InitCall ==
    /\ IdmInit
    /\ lock = <<>>
    /\ tmp = [f \in WritePaths |-> <<>>]
    /\ hist = [seq |-> PositionsFile, done |-> {}, returned |-> {}]
    /\ positions = PositionsFile
    /\ fileExists = FALSE
    /\ bootFile = <<>>
    /\ minted = 0
    /\ clock = 0
    /\ ops = 0
    /\ lastWs = [id \in StableIds |-> {}]
    /\ windows = {}
    /\ focused = <<>>
    /\ last = [op |-> "none"]
    /\ pc = [p \in Processes |-> IF p = "p1" THEN "called" ELSE "idle"]
    /\ \E args \in CliArgs, elements \in CliElementSets :
          loc = [p \in Processes |->
                   IF p = "p1"
                   THEN [op |-> "_get_elements_to_delete", args |-> args,
                         effective_date |-> MaxDay, elements |-> elements]
                   ELSE [op |-> "none"]]

\* the call up to the first next() on the generators: the filter of
\* _group_deletable_by_buckets and the initial values of _gen_buckets
GroupStart ==
    /\ pc["p1"] = "called"
    /\ LET f == loc["p1"]
           start_of_preserved_window == f.effective_date - f.args.preserve_window
       IN  loc' = [loc EXCEPT !["p1"] =
                     [op |-> f.op, args |-> f.args, effective_date |-> f.effective_date,
                      elements |-> f.elements,
                      deletable_elements |->
                          {el \in f.elements :
                              Deletable(get_element_timestamp(el), start_of_preserved_window)},
                      bucket_size |-> f.args.first_bucket_size,
                      start_of_bucket |-> start_of_preserved_window,
                      resumed |-> FALSE,
                      elements_to_delete |-> {}]]
    /\ Goto("p1", "grouping")
    /\ UNCHANGED <<last, callFrame>>

\* one pass of the three nested loops: _gen_buckets resumes after its yield and
\* yields the next start, _group_deletable_by_buckets yields the bucket, the
\* caller adds all but the earliest element; then the break test
NextBucket ==
    /\ pc["p1"] = "grouping"
    /\ LET f == loc["p1"]
           grown == f.bucket_size * f.args.exponential_factor
           size == IF ~f.resumed THEN f.bucket_size
                   ELSE IF grown > f.args.max_bucket_size THEN f.args.max_bucket_size
                   ELSE grown
           bucket_start == f.start_of_bucket - size
           els_in_bucket == {el \in f.deletable_elements :
                                get_element_timestamp(el) >= bucket_start}
           rest == f.deletable_elements \ els_in_bucket
       IN  /\ bucket_start \in StartRange
           /\ \E iter \in IterationOrders(els_in_bucket) :
                 loc' = [loc EXCEPT !["p1"].bucket_size = size,
                                    !["p1"].start_of_bucket = bucket_start,
                                    !["p1"].resumed = TRUE,
                                    !["p1"].deletable_elements = rest,
                                    !["p1"].elements_to_delete =
                                        @ \cup Range(AllButEarliest(sorted(iter)))]
           /\ Goto("p1", IF rest = {} THEN "returning" ELSE "grouping")
    /\ UNCHANGED <<last, callFrame>>

\* return elements_to_delete
ReturnElements ==
    /\ pc["p1"] = "returning"
    /\ last' = [op |-> "_get_elements_to_delete", args |-> loc["p1"].args,
                ret |-> loc["p1"].elements_to_delete]
    /\ Goto("p1", "returned")
    /\ UNCHANGED <<loc, callFrame>>

NextCall == GroupStart \/ NextBucket \/ ReturnElements

SpecCall == InitCall /\ [][NextCall]_vars

\* the interpreter keeps running the call
SpecCallFair == SpecCall /\ WF_vars(NextCall)

----------------------------------------------------------------------------
(* Properties of the position store *)

\* the workspace keys of a boot whose entry list holds the id
HoldersOf(boot, id) ==
    {p.k : p \in {q \in Range(boot.workspaces) : \E e \in Range(q.v) : e.id = id}}

\* the (workspace key, entry) pairs of a boot
EntrySet(boot) ==
    UNION {{<<p.k, e>> : e \in Range(p.v)} : p \in Range(boot.workspaces)}

\* how many entries of a boot carry the id
CountOf(boot, id) ==
    Cardinality({ij \in (DOMAIN boot.workspaces) \X (1..8) :
                   /\ ij[2] \in DOMAIN boot.workspaces[ij[1]].v
                   /\ boot.workspaces[ij[1]].v[ij[2]].id = id})

IdsIn(entries) == {entries[i].id : i \in DOMAIN entries}
DistinctIds(entries) == Cardinality(IdsIn(entries)) = Len(entries)

\* boot B's families are all among C's and B was written strictly earlier
Superseded(B, C) ==
    /\ \A i \in DOMAIN B.apps : \E j \in DOMAIN C.apps : C.apps[j] = B.apps[i]
    /\ StrLess(B.updated_at, C.updated_at)

\* C1: in the current boot every stable id is held by at most one workspace's
\* list, and that workspace is the target of the latest upsert of this boot
\* that contained the id (by none if no upsert of this boot contained it).
C1_OneWorkspacePerId ==
    (bootFile # <<>> /\ DictHas(positions.boots, bootFile[1])) =>
        \A id \in StableIds :
            HoldersOf(DictGet(positions.boots, bootFile[1]), id)
                = {str(w) : w \in lastWs[id]}

\* an upsert moved an id from another workspace of the same boot
C1_Witness ==
    /\ last.op = "upsert"
    /\ DictHas(last.pre.boots, last.boot_id)
    /\ \E id \in IdsIn(last.entries) :
        /\ HoldersOf(DictGet(last.pre.boots, last.boot_id), id) # {}
        /\ str(last.workspace_id) \notin HoldersOf(DictGet(last.pre.boots, last.boot_id), id)
        /\ HoldersOf(DictGet(positions.boots, last.boot_id), id) = {str(last.workspace_id)}

\* C2: an upsert repeated with the same arguments (entries with pairwise
\* distinct ids) leaves exactly one entry per upserted id in the current boot,
\* and the boot's entries are those it held after the first call.
C2_UpsertIdempotent ==
    (last.op = "upsert" /\ last.repeat /\ DistinctIds(last.entries)) =>
        LET boot == DictGet(positions.boots, last.boot_id)
            before == DictGet(last.pre.boots, last.boot_id)
        IN  /\ \A id \in IdsIn(last.entries) : CountOf(boot, id) = 1
            /\ EntrySet(boot) = EntrySet(before)

\* a list of two entries was upserted twice in a row
C2_Witness ==
    /\ last.op = "upsert"
    /\ last.repeat
    /\ DistinctIds(last.entries)
    /\ Len(last.entries) = 2

\* C3: a prune whose current boot is in the store removes every other boot
\* whose families are a subset of the current boot's and whose updated_at is
\* strictly smaller; afterwards no such boot is left.
C3_PruneRemovesDominated ==
    (last.op = "prune" /\ DictHas(last.pre.boots, last.current_boot_id)) =>
        LET cur == DictGet(last.pre.boots, last.current_boot_id)
        IN  /\ \A p \in Range(last.pre.boots) :
                  (p.k # last.current_boot_id /\ Superseded(p.v, cur))
                      => ~DictHas(positions.boots, p.k)
            /\ \A p \in Range(positions.boots) :
                  p.k # last.current_boot_id => ~Superseded(p.v, cur)

\* a prune removed a boot
C3_Witness ==
    /\ last.op = "prune"
    /\ DictHas(last.pre.boots, last.current_boot_id)
    /\ \E p \in Range(last.pre.boots) :
        /\ p.k # last.current_boot_id
        /\ Superseded(p.v, DictGet(last.pre.boots, last.current_boot_id))
        /\ ~DictHas(positions.boots, p.k)

BootsHolding(data, id) ==
    {p \in Range(data.boots) : HoldersOf(p.v, id) # {}}

\* C5: for an id recorded in one or more boots, lookup_latest_position returns
\* the workspace and the width of an entry carrying the id in the boot with the
\* greatest updated_at among the boots that contain the id.
C5_LookupLatestIsNewest ==
    (last.op = "lookup_latest_position" /\ BootsHolding(last.pre, last.stable_id) # {}) =>
        /\ last.ret # <<>>
        /\ \E p \in BootsHolding(last.pre, last.stable_id) :
            /\ \A p2 \in BootsHolding(last.pre, last.stable_id) :
                  ~StrLess(p.v.updated_at, p2.v.updated_at)
            /\ \E w \in Workspaces : \E e \in Range(IF DictHas(p.v.workspaces, str(w))
                                                     THEN DictGet(p.v.workspaces, str(w))
                                                     ELSE <<>>) :
                /\ e.id = last.stable_id
                /\ last.ret[1].workspace_id = w
                /\ last.ret[1].width = e.width

\* the id is held by two boots, in different workspaces, and was looked up
C5_Witness ==
    /\ last.op = "lookup_latest_position"
    /\ last.ret # <<>>
    /\ \E p1, p2 \in BootsHolding(last.pre, last.stable_id) :
        /\ StrLess(p1.v.updated_at, p2.v.updated_at)
        /\ HoldersOf(p1.v, last.stable_id) # HoldersOf(p2.v, last.stable_id)
        /\ str(last.ret[1].workspace_id) \in HoldersOf(p2.v, last.stable_id)

\* C6: lookup_latest_position returns None exactly when no workspace of any
\* boot of the store holds an entry with the id.
C6_NotFoundIffAbsent ==
    last.op = "lookup_latest_position" =>
        (last.ret = <<>> <=> BootsHolding(last.pre, last.stable_id) = {})

\* an id was not found in a store of two boots that hold other ids
C6_Witness ==
    /\ last.op = "lookup_latest_position"
    /\ last.ret = <<>>
    /\ Len(last.pre.boots) = 2
    /\ \A p \in Range(last.pre.boots) : p.v.workspaces # <<>>

\* the entries of workspace ws in a boot (none if the boot lacks the workspace)
EntriesAt(boot, ws) ==
    IF DictHas(boot.workspaces, str(ws)) THEN DictGet(boot.workspaces, str(ws)) ELSE <<>>

\* the boots in which both families have written and whose workspace ws holds the id
BootsWithBoth(data, id, thisApp, family, ws) ==
    {p \in Range(data.boots) :
        /\ \E i \in DOMAIN p.v.apps : p.v.apps[i] = thisApp
        /\ \E i \in DOMAIN p.v.apps : p.v.apps[i] = family
        /\ \E e \in Range(EntriesAt(p.v, ws)) : e.id = id}

\* the ids left of the id's first entry in workspace ws of the newest such boot
LeftOfIn(data, id, thisApp, family, ws) ==
    UNION {LET entries == EntriesAt(p.v, ws)
               first == CHOOSE i \in DOMAIN entries :
                            /\ entries[i].id = id
                            /\ \A j \in DOMAIN entries : entries[j].id = id => i <= j
           IN  {entries[k].id : k \in {n \in DOMAIN entries :
                                          /\ entries[n].index < entries[first].index
                                          /\ entries[n].id # id}}
           : p \in {q \in BootsWithBoth(data, id, thisApp, family, ws) :
                      \A q2 \in BootsWithBoth(data, id, thisApp, family, ws) :
                          ~StrLess(q.v.updated_at, q2.v.updated_at)}}

\* C7 as stated: find_predecessors returns the union, over every family other
\* than thisApp, of the ids left of stableId in workspace ws of the newest boot
\* holding both families; a boot where no other family appears gives nothing.
C7_OtherFamiliesOnly ==
    last.op = "find_predecessors" =>
        last.predecessor_ids =
            UNION {LeftOfIn(last.pre, last.stable_id, last.this_app, family, last.workspace_id) :
                     family \in all_apps \ {last.this_app}}

\* C7 amended: the union runs over every family, thisApp included, so the
\* newest boot in which thisApp has written and whose workspace ws holds
\* stableId contributes even when no other family appears in it; ids with an
\* index strictly below that of stableId's first entry, stableId excluded.
C7_EveryFamily ==
    last.op = "find_predecessors" =>
        last.predecessor_ids =
            UNION {LeftOfIn(last.pre, last.stable_id, last.this_app, family, last.workspace_id) :
                     family \in all_apps}

\* two boots hold the id in the workspace; an id left of it in the older boot
\* only is not returned
C7_Witness ==
    /\ last.op = "find_predecessors"
    /\ \E p1, p2 \in BootsWithBoth(last.pre, last.stable_id, last.this_app,
                                     last.this_app, last.workspace_id) :
        /\ StrLess(p1.v.updated_at, p2.v.updated_at)
        /\ \E e, x \in Range(EntriesAt(p1.v, last.workspace_id)) :
            /\ x.id = last.stable_id
            /\ e.index < x.index
            /\ e.id # last.stable_id
            /\ e.id \notin last.predecessor_ids

\* C8 as stated: the window ids returned are exactly those recorded in the
\* current boot's workspace ws for the predecessor ids with an entry there
\* (none when the boot or the workspace is absent).
C8_ExactWindowIds ==
    last.op = "find_predecessors" =>
        Range(last.predecessor_window_ids) =
            IF DictHas(last.pre.boots, last.boot_id)
            THEN {e.window_id : e \in {x \in Range(EntriesAt(DictGet(last.pre.boots, last.boot_id),
                                                             last.workspace_id)) :
                                          x.id \in last.predecessor_ids}}
            ELSE {}

----------------------------------------------------------------------------
(* Properties of the ordering engine *)

\* the live columns, in a workspace of a layout, of the windows with the given ids
LiveColumns(W, workspace_id, ids) ==
    {w.column[1] : w \in {x \in W : /\ x.workspace_id = workspace_id
                                    /\ x.column # <<>>
                                    /\ x.id \in ids}}

SpacerIds(W) == {w.id : w \in {x \in W : x.title = "niri-spacer window"}}

\* the windows whose title is an identity listed before the given one
SavedPredecessorIds(W, identity, saved_order) ==
    {w.id : w \in {x \in W : \E j, k \in DOMAIN saved_order :
                                /\ saved_order[k] = identity
                                /\ j < k
                                /\ saved_order[j] = x.title}}

OnePastMax(S) == IF S = {} THEN 1 ELSE 1 + (CHOOSE c \in S : \A d \in S : d <= c)

\* C9: the target column is 1 + the greatest live column, in the workspace, among
\* the spacer and the predecessors that are live there, and 1 when none of them
\* is live there; a predecessor that is not in the workspace has no influence.
\* For place_window the predecessors are the resolved predecessor windows, for
\* calculate_target_column the identities saved before the window's.
C9_TargetColumn ==
    /\ last.op = "place_window" =>
          last.target = OnePastMax(LiveColumns(last.windows, last.workspace_id,
                                       SpacerIds(last.windows)
                                           \cup Range(last.predecessor_window_ids)))
    /\ last.op = "calculate_target_column" =>
          last.target = OnePastMax(LiveColumns(last.windows, last.workspace_id,
                                       SpacerIds(last.windows)
                                           \cup SavedPredecessorIds(last.windows, last.identity,
                                                                    last.saved_order)))

\* place_window saw the spacer, a predecessor right of it in the workspace and
\* another predecessor that had left the workspace, and chose the column right
\* of the first predecessor
C9_Witness ==
    /\ last.op = "place_window"
    /\ \E p, q \in Range(last.predecessor_window_ids) :
        /\ LiveColumns(last.windows, last.workspace_id, {q}) = {}
        /\ \E c \in LiveColumns(last.windows, last.workspace_id, {p}) :
            /\ \E sc \in LiveColumns(last.windows, last.workspace_id,
                                     SpacerIds(last.windows)) : sc < c
            /\ last.target = c + 1

\* C10: move_to_column sends nothing when the window is already in the target
\* column; otherwise one focus command for the window, then exactly
\* |current - target| moves, all left when current > target, all right otherwise.
C10_MoveCommands ==
    last.op \in {"move_to_column", "place_window"} =>
        LET n == IF last.current_column > last.target
                 THEN last.current_column - last.target
                 ELSE last.target - last.current_column
        IN  IF n = 0 THEN last.cmds = <<>>
            ELSE /\ Len(last.cmds) = n + 1
                 /\ last.cmds[1] = <<"focus_window", last.window_id>>
                 /\ \A i \in 2..(n + 1) :
                       last.cmds[i] = IF last.current_column > last.target
                                      THEN <<"move_column_left">>
                                      ELSE <<"move_column_right">>

\* a window was moved two columns to the left
C10_Witness ==
    /\ last.op = "move_to_column"
    /\ last.current_column = last.target + 2
    /\ Len(last.cmds) = 3

\* every move command of the sequence changed the layout (the focused column
\* changed place with a neighbour)
RECURSIVE AllMovesSwap(_, _)
AllMovesSwap(state, cmds) ==
    IF cmds = <<>> THEN TRUE
    ELSE LET next == RunCommands(state, <<Head(cmds)>>)
         IN  /\ Head(cmds)[1] = "focus_window" \/ next.windows # state.windows
             /\ AllMovesSwap(next, Tail(cmds))

\* C11: when place_window has finished and each of its move commands made the
\* focused column change place with its neighbour, the window is, in the window
\* manager, in the target column of its workspace.
C11_EndsInTarget ==
    (/\ last.op = "place_window"
     /\ AllMovesSwap([windows |-> last.windows, focused |-> <<>>], last.cmds)) =>
        \E w \in last.after :
            /\ w.id = last.window_id
            /\ w.workspace_id = last.workspace_id
            /\ w.column = <<last.target>>

\* place_window moved a window over two columns, each move changing the layout
C11_Witness ==
    /\ last.op = "place_window"
    /\ Len(last.cmds) >= 3
    /\ AllMovesSwap([windows |-> last.windows, focused |-> <<>>], last.cmds)
    /\ \E w \in last.after : w.id = last.window_id /\ w.column = <<last.target>>

\* C12: whenever the spacer is tiled in the target workspace, at column s, the
\* target column computed for a window (by place_window or by
\* calculate_target_column) is strictly greater than s, with or without
\* saved predecessors.
C12_RightOfSpacer ==
    last.op \in {"place_window", "calculate_target_column"} =>
        \A w \in last.windows :
            (/\ w.title = "niri-spacer window"
             /\ w.workspace_id = last.workspace_id
             /\ w.column # <<>>) => last.target > w.column[1]

\* a window without any resolved predecessor stood left of the spacer and got
\* the column right of the spacer as its target
C12_Witness ==
    /\ last.op = "place_window"
    /\ last.predecessor_window_ids = <<>>
    /\ \E w \in last.windows :
        /\ w.title = "niri-spacer window"
        /\ w.workspace_id = last.workspace_id
        /\ w.column # <<>>
        /\ last.current_column < w.column[1]
        /\ last.target = w.column[1] + 1

----------------------------------------------------------------------------
(* Properties of the store under concurrent calls *)

\* the (boot, stable id) pairs a store holds
HeldIds(data) ==
    UNION {{<<p.k, ke[2].id>> : ke \in EntrySet(p.v)} : p \in Range(data.boots)}

\* C13: the load-mutate-save sequences of concurrent upsert and prune calls never
\* overlap: a process between load and save holds the lock, the file a call
\* replaces is the file it loaded, the store always equals the result of running
\* the saved calls one after the other in the order of their saves, and an
\* upsert's save drops no id any boot held before it.
C13_Serialized ==
    /\ \A p \in Processes : Critical(p) => lock = <<p>>
    /\ load_positions = hist.seq
    /\ last.op = "save_positions" => last.base = last.before
    /\ (last.op = "save_positions" /\ last.call = "upsert_entries") =>
           HeldIds(last.before) \subseteq HeldIds(last.after)
C13_Witness ==
    /\ last.op = "save_positions"
    /\ last.call = "upsert_entries"
    /\ last.others # {}
    /\ HeldIds(last.before) # {}
    /\ HeldIds(last.after) # HeldIds(last.before)
    /\ \E p, q \in Processes : pc[p] = "release" /\ pc[q] = "acquire"

\* C14: a load_positions of a lock-free reader never sees a partially written
\* positions file: it returns the complete contents of the latest finished save,
\* also while a writer is inside save_positions and after a writer was killed
\* there.
C14_ReadsComplete ==
    last.op = "load_positions" => (~last.torn /\ last.data = last.committed)
C14_Witness ==
    /\ last.op = "load_positions"
    /\ last.data.boots # <<>>
    /\ last.data = last.committed
    /\ \E q \in last.racing : tmp[q] # <<>> /\ tmp[q][1].data # last.data

\* C15: within one login session every get_boot_id returns the same identifier,
\* and it is the content of the boot file.
C15_OneBootId ==
    /\ Cardinality(hist.returned) <= 1
    /\ \A boot_id \in hist.returned : bootFile = <<boot_id>>

----------------------------------------------------------------------------
(* Properties of the URL matcher *)

\* len(url_set & entry_urls)
Overlap(entry, urls) == Cardinality(Range(urls) \cap Range(entry.urls))

\* the last call of the run before the current one, if that run saved after it
SavedCall == last.prev.calls[Len(last.prev.calls)]
RoundTrip ==
    /\ last.op = "match_or_create"
    /\ last.call_no = 1
    /\ last.prev.calls # <<>>
    /\ last.prev.saved = <<Len(last.prev.calls)>>
    /\ SavedCall.urls = last.urls

\* C16 as stated: match_or_create(urls), then save, then a fresh load and
\* match_or_create of the same urls as the first call of the new run returns
\* the identifier the call before the save returned, whatever calls the
\* earlier run made before it.
C16_RoundTrip == RoundTrip => last.ret = SavedCall.ret

\* C16, amended: the same when match_or_create(urls) was the only call of its
\* run before the save.
C16_FirstCallRoundTrip ==
    (RoundTrip /\ Len(last.prev.calls) = 1) => last.ret = SavedCall.ret
C16_Witness ==
    /\ RoundTrip
    /\ Len(last.prev.calls) = 1
    /\ last.urls # <<>>
    /\ Len(last.pre.entries) >= 2
    /\ last.ret = SavedCall.ret
    /\ \E i \in last.pre.available :
          /\ last.pre.entries[i + 1].uuid # last.ret
          /\ Overlap(last.pre.entries[i + 1], last.urls) > 0

\* the entries of a call's matcher after the call, had it consumed entry i
ConsumedAt(i) ==
    /\ last.ret = last.pre.entries[i + 1].uuid
    /\ last.post.available = last.pre.available \ {i}
    /\ last.post.entries = [last.pre.entries EXCEPT ![i + 1].urls = last.urls]

\* C17: when an available candidate shares a URL with the query, the call
\* returns the uuid of an available candidate of maximal overlap, takes it out
\* of the pool and overwrites its urls with the query's.
C17_MaximalOverlap ==
    (/\ last.op = "match_or_create"
     /\ \E i \in last.pre.available : Overlap(last.pre.entries[i + 1], last.urls) > 0) =>
        \E i \in last.pre.available :
           /\ \A j \in last.pre.available :
                 Overlap(last.pre.entries[j + 1], last.urls)
                    <= Overlap(last.pre.entries[i + 1], last.urls)
           /\ ConsumedAt(i)
C17_Witness ==
    /\ last.op = "match_or_create"
    /\ \E i, j \in last.pre.available :
          /\ j < i
          /\ Overlap(last.pre.entries[j + 1], last.urls) > 0
          /\ Overlap(last.pre.entries[j + 1], last.urls)
                < Overlap(last.pre.entries[i + 1], last.urls)
          /\ ConsumedAt(i)

\* no available candidate shares a URL with the query, and the pool is not empty
NoOverlap ==
    /\ last.op = "match_or_create"
    /\ last.pre.available # {}
    /\ \A i \in last.pre.available : Overlap(last.pre.entries[i + 1], last.urls) = 0

\* C18: without any overlap and with a non-empty pool the call consumes the
\* available candidate of lowest index, overwrites its urls, returns its uuid
\* and creates no entry.
C18_LowestIndex ==
    NoOverlap =>
        /\ ConsumedAt(min(last.pre.available))
        /\ Len(last.post.entries) = Len(last.pre.entries)
C18_Witness ==
    /\ NoOverlap
    /\ Cardinality(last.pre.available) >= 2
    /\ last.urls # <<>>
    /\ ConsumedAt(min(last.pre.available))

\* C19: a call appends an entry exactly when the pool is empty; after k calls of
\* a run loaded with n entries the list has max(n, k) entries; every call
\* returns the uuid of an entry.
C19_AppendsIffExhausted ==
    /\ last.op = "match_or_create" =>
          /\ Len(last.post.entries) =
                IF last.pre.available = {} THEN Len(last.pre.entries) + 1
                ELSE Len(last.pre.entries)
          /\ \E e \in Range(last.post.entries) : e.uuid = last.ret
    /\ Len(matcher.entries) = max({run.n, Len(run.calls)})
C19_Witness ==
    /\ last.op = "match_or_create"
    /\ last.pre.available = {}
    /\ run.n >= 1
    /\ Len(run.calls) > run.n
    /\ Len(matcher.entries) = Len(run.calls)

Uuids(list) == [i \in DOMAIN list |-> list[i].uuid]
IsPrefix(a, b) == Len(a) <= Len(b) /\ SubSeq(b, 1, Len(a)) = a
FileEntries == IF idFile = <<>> THEN <<>> ELSE idFile[1].entries

\* C20: no step of load, match_or_create or save removes an entry from the
\* identities file or from a matcher's list, changes an entry's uuid or
\* reorders entries: the uuids before the step are a prefix of the uuids after
\* it (a load starts a new matcher from the file).
C20_NeverRemoved ==
    [][/\ IsPrefix(Uuids(FileEntries), Uuids(FileEntries'))
       /\ \/ IsPrefix(Uuids(matcher.entries), Uuids(matcher'.entries))
          \/ matcher' = UrlMatcher_load]_vars
C20_Witness ==
    /\ last.op = "save"
    /\ last.before # <<>>
    /\ Len(last.after[1].entries) > Len(last.before[1].entries)
    /\ \E i \in DOMAIN last.before[1].entries :
          /\ last.before[1].entries[i].urls # last.after[1].entries[i].urls
          /\ last.before[1].entries[i].uuid = last.after[1].entries[i].uuid

----------------------------------------------------------------------------
(* Properties of the hosts and of the restorers *)

\* C21: when two processes each run load, match_or_create and save, the
\* identities file holds every entry a finished run created, under every
\* interleaving.
C21_NoLostUpdate ==
    \A d \in hist.done : \A u \in d.created : \E e \in Range(FileEntries) : e.uuid = u

\* the entries of a restored_entries dict, each with its workspace key
RestoredSet(restored) ==
    UNION {{<<str(p.k), e>> : e \in Range(p.v)} : p \in Range(restored)}

\* C25: in a batch restore over several sessions, a failure while processing
\* one window is isolated: when the run ends, every session of the batch has
\* been processed and every entry obtained for the other windows is recorded in
\* the current boot of the positions file.
C25_FailureIsolated ==
    last.op = "restore_end" =>
        /\ last.todo = <<>>
        /\ \A x \in RestoredSet(last.restored_entries) :
              /\ DictHas(last.data.boots, last.boot_id)
              /\ x \in EntrySet(DictGet(last.data.boots, last.boot_id))

\* C26: the entry a restorer records for a restored window holds the column
\* the window occupies after place_window has moved it.
C26_RecordsNewColumn ==
    (last.op = "restore_session" /\ last.r.placed) =>
        last.r.entry[1].e.index = last.r.column_after[1]

\* the boots of a file that no other boot is later than
LatestBoots(data) ==
    {b \in Range(data.boots) :
        \A b2 \in Range(data.boots) : ~StrLess(b.v.updated_at, b2.v.updated_at)}
ColumnOf(W, window_id) == (CHOOSE w \in W : w.id = window_id).column[1]

\* C27: when a restorer run in which every command succeeded has ended, any two
\* windows A and B it restored that the latest boot recorded in the same
\* workspace with index(A) < index(B) have column(A) < column(B).
C27_OrderRestored ==
    (last.op = "restore_end" /\ ~last.raised) =>
        \A b \in LatestBoots(last.store0) : \A x, y \in EntrySet(b.v) :
            ( /\ x[1] = y[1]
              /\ x[2].index < y[2].index
              /\ \E rx, ry \in RestoredSet(last.restored_entries) :
                    /\ rx[2].id = x[2].id /\ ry[2].id = y[2].id
                    /\ rx[1] = x[1] /\ ry[1] = y[1] )
            => ColumnOf(windows, TerminalOf(x[2].id).id)
                  < ColumnOf(windows, TerminalOf(y[2].id).id)

\* C28: when lookup_latest_position finds nothing for a session, the restorer
\* spawns its terminal, does not wait for the window, issues no configure or
\* move command, records no entry, and goes on with the remaining sessions.
C28_NotFoundOnlySpawns ==
    (last.op = "restore_session" /\ last.r.props = <<>>) =>
        /\ last.r.spawned
        /\ ~last.r.waited
        /\ ~last.r.configured
        /\ last.r.cmds = <<>>
        /\ last.r.entry = <<>>
        /\ ~last.r.raised
        /\ \E ws \in Workspaces :
              windows = Spawned(last.before, TerminalOf(last.stable_id), ws)
        /\ pc["p1"] = "restoring"
        /\ loc["p1"].restored_entries = last.restored_before
        /\ loc["p1"].todo = last.todo
C28_Witness ==
    /\ last.op = "restore_session"
    /\ last.r.props = <<>>
    /\ last.r.spawned
    /\ last.todo # <<>>
    /\ \E w \in windows : w.id = TerminalOf(last.stable_id).id

----------------------------------------------------------------------------
(* Properties of the store's error handling *)

\* C23: a store operation that finds no positions file works on version 1 with
\* no boots: lookup returns not found, find_predecessors and
\* resolve_predecessors_to_window_ids return nothing, prune changes nothing and
\* creates no file, and upsert creates the file with the current boot only.
C23_MissingIsEmpty ==
    [][(~fileExists /\ ops' = ops + 1) =>
         /\ last'.pre = [version |-> 1, boots |-> <<>>]
         /\ last'.op \in {"upsert", "prune", "lookup_latest_position", "find_predecessors"}
         /\ last'.op = "lookup_latest_position" => (last'.ret = <<>> /\ ~fileExists')
         /\ last'.op = "find_predecessors" =>
               /\ ListOf(last'.predecessor_ids) = <<>>
               /\ last'.predecessor_window_ids = <<>>
               /\ ~fileExists'
         /\ last'.op = "prune" => (~fileExists' /\ positions' = positions)
         /\ last'.op = "upsert" =>
               /\ fileExists'
               /\ positions'.version = 1
               /\ Len(positions'.boots) = 1
               /\ positions'.boots[1].k = last'.boot_id
               /\ bootFile' = <<last'.boot_id>>]_vars
C23_Witness ==
    /\ last.op = "upsert"
    /\ last.pre = [version |-> 1, boots |-> <<>>]
    /\ ops = 3
    /\ fileExists
    /\ Len(positions.boots) = 1

\* C22: when save_positions fails during an upsert, the call ends with the
\* exception reaching its caller, the positions file is what the call loaded
\* (or still missing), the call's temporary file is gone, the lock is not held
\* by the caller and the upsert does not count as done.
C22_FailedWriteAborts ==
    [][\A p \in Processes :
          ( /\ pc[p] = "raise" /\ pc'[p] = "idle"
            /\ loc[p].op = "upsert_entries" /\ loc[p].cause = "save" )
          => /\ last' = [op |-> "raised", proc |-> p, call |-> "upsert_entries",
                         cause |-> "save"]
             /\ fileExists' = loc[p].existed
             /\ load_positions' = loc[p].data
             /\ tmp'[p] = <<>>
             /\ lock' # <<p>>
             /\ hist'.done = hist.done]_vars
C22_Witness ==
    /\ last.op = "raised"
    /\ last.call = "upsert_entries"
    /\ last.cause = "save"
    /\ pc[last.proc] = "idle"
    /\ fileExists
    /\ positions.boots # <<>>
    /\ tmp[last.proc] = <<>>
    /\ \E q \in Processes : pc[q] = "acquire" /\ lock = <<>>

C29_LockReleased ==
    /\ [](\A p \in Processes : pc[p] = "idle" => lock # <<p>>)
    /\ \A p \in Processes : (pc[p] = "acquire") ~> (lock = <<p>>)
C29_Witness ==
    \E p, q \in Processes :
        /\ p # q
        /\ last.op = "raised"
        /\ last.proc = p
        /\ last.cause = "save"
        /\ pc[p] = "idle"
        /\ lock = <<q>>
        /\ pc[q] = "load"

----------------------------------------------------------------------------
(* Properties of the retainer *)

\* C30: no element whose timestamp is at or after effective_date -
\* preserve_window is in the set _get_elements_to_delete returns.
C30_PreservedNeverDeleted ==
    last.op = "_get_elements_to_delete" =>
        \A el \in last.args.elements :
            el.timestamp >= last.args.effective_date - last.args.preserve_window
                => el \notin last.ret
C30_Witness ==
    /\ last.op = "_get_elements_to_delete"
    /\ last.ret # {}
    /\ \E el, old \in last.args.elements :
          /\ el.timestamp = last.args.effective_date - last.args.preserve_window
          /\ old.timestamp < el.timestamp
          /\ old.timestamp >= el.timestamp - last.args.first_bucket_size
          /\ old \notin last.ret
          /\ el \notin last.ret

\* first_bucket_size * exponential_factor^k, capped at max_bucket_size
RECURSIVE CappedPower(_, _, _, _)
CappedPower(k, first_bucket_size, max_bucket_size, exponential_factor) ==
    IF first_bucket_size > max_bucket_size THEN max_bucket_size
    ELSE IF k = 0 THEN first_bucket_size
    ELSE CappedPower(k - 1, first_bucket_size * exponential_factor, max_bucket_size,
                     exponential_factor)

\* the first bucket has first_bucket_size; each later one the previous size
\* times exponential_factor, capped at max_bucket_size
RECURSIVE GrownSize(_, _, _, _)
GrownSize(k, first_bucket_size, max_bucket_size, exponential_factor) ==
    IF k = 0 THEN first_bucket_size
    ELSE LET grown == GrownSize(k - 1, first_bucket_size, max_bucket_size,
                                exponential_factor) * exponential_factor
         IN  IF grown > max_bucket_size THEN max_bucket_size ELSE grown

RECURSIVE SumFirst(_, _)
SumFirst(sizes, n) == IF n = 0 THEN 0 ELSE sizes[n] + SumFirst(sizes, n - 1)

\* the elements of the k-th interval going backwards from the window start
BucketOf(k, sizes) ==
    LET start == last.args.effective_date - last.args.preserve_window
    IN  {el \in last.args.elements :
            /\ el.timestamp >= start - SumFirst(sizes, k)
            /\ el.timestamp < start - SumFirst(sizes, k - 1)}

\* of every non-empty bucket exactly one element is kept, and none is earlier
OnePerBucket(sizes) ==
    \A k \in DOMAIN sizes :
        BucketOf(k, sizes) # {} =>
            \E kept \in BucketOf(k, sizes) :
                /\ kept \notin last.ret
                /\ \A el \in BucketOf(k, sizes) \ {kept} :
                      el \in last.ret /\ kept.timestamp <= el.timestamp

----------------------------------------------------------------------------
(* Further properties of the position store *)

\* the boot record of a file before the upsert created it
BootOrNew(data, boot_id) ==
    IF DictHas(data.boots, boot_id) THEN DictGet(data.boots, boot_id) ELSE BootData(<<>>)

\* C32: an upsert leaves every other boot record as it was and removes no boot;
\* in the current boot every entry whose id is not upserted stays in its
\* workspace with the same fields, and apps is the old list plus the given app,
\* without duplicates.
C32_UpsertFrame ==
    last.op = "upsert" =>
        LET pre == last.pre
            ids == {last.entries[i].id : i \in DOMAIN last.entries}
            old == BootOrNew(pre, last.boot_id)
            new == DictGet(positions.boots, last.boot_id)
        IN  /\ \A b \in Range(pre.boots) : b.k # last.boot_id => b \in Range(positions.boots)
            /\ DictKeys(positions.boots) = DictKeys(pre.boots) \cup {last.boot_id}
            /\ Len(positions.boots) = Cardinality(DictKeys(positions.boots))
            /\ \A x \in EntrySet(old) : x[2].id \notin ids => x \in EntrySet(new)
            /\ Range(new.apps) = Range(old.apps) \cup {last.app}
            /\ Len(new.apps) = Cardinality(Range(new.apps))
C32_Witness ==
    /\ last.op = "upsert"
    /\ Len(positions.boots) = 2
    /\ Len(last.pre.boots) = 2
    /\ last.app \in Range(BootOrNew(last.pre, last.boot_id).apps)
    /\ \E x \in EntrySet(BootOrNew(last.pre, last.boot_id)) :
          \A i \in DOMAIN last.entries : last.entries[i].id # x[2].id

\* C33: after an upsert the current boot contains no workspace whose entry list
\* is empty, whatever entries list was passed.
C33_NoEmptyWorkspace ==
    last.op = "upsert" =>
        \A p \in Range(DictGet(positions.boots, last.boot_id).workspaces) : p.v # <<>>

\* lookup_latest_position finds the id
Found(data, id) == lookup_latest_position(data, id) # <<>>

\* the boots of the file before a prune that the current boot does not dominate
Undominated(data, current_boot_id) ==
    IF ~DictHas(data.boots, current_boot_id) THEN Range(data.boots)
    ELSE {b \in Range(data.boots) :
            \/ b.k = current_boot_id
            \/ ~Dominated(b.v, DictGet(data.boots, current_boot_id))}

\* C34 as stated: an id found before a prune is found after it.
C34_NoPositionLost ==
    last.op = "prune" =>
        \A id \in StableIds : Found(last.pre, id) => Found(load_positions, id)

\* C34 amended: an id found before a prune is found after it exactly if the
\* current boot or a boot the current boot does not dominate records it; an id
\* recorded only in removed boots is lost, and its application family is one
\* that has reported into the current boot.
C34_LostOnlyIfSuperseded ==
    last.op = "prune" =>
        \A id \in StableIds :
            Found(last.pre, id) =>
                /\ Found(load_positions, id) <=>
                      \E b \in Undominated(last.pre, last.current_boot_id) :
                          \E x \in EntrySet(b.v) : x[2].id = id
                /\ ~Found(load_positions, id) =>
                      AppOf(id) \in Range(DictGet(load_positions.boots,
                                                  last.current_boot_id).apps)
C34_Witness ==
    /\ last.op = "prune"
    /\ \E id, kept \in StableIds :
          /\ Found(last.pre, id)
          /\ ~Found(load_positions, id)
          /\ Found(load_positions, kept)

\* C35: every entries list a tracking pass hands to upsert has pairwise-distinct
\* ids, also when several terminals are attached to one session in one
\* workspace, so the current boot never holds two entries with the same id.
C35_DistinctTrackedIds ==
    (last.op = "upsert" /\ last.app \in {"tmux", "mosh"}) =>
        /\ DistinctIds(last.entries)
        /\ \A id \in StableIds :
              CountOf(DictGet(positions.boots, last.boot_id), id) <= 1

\* C36: within one run (a load and the calls after it) no two match_or_create
\* calls return the same identifier: an index leaves the pool when its entry is
\* returned, so no entry whose uuid a call of the run returned is still
\* available, and an entry minted in the run is never in the pool.
C36_ConsumedOnce ==
    /\ \A i, j \in DOMAIN run.calls : i # j => run.calls[i].ret # run.calls[j].ret
    /\ matcher.available \subseteq 0..(run.n - 1)
    /\ \A i \in DOMAIN run.calls : \A k \in matcher.available :
          matcher.entries[k + 1].uuid # run.calls[i].ret
    /\ last.op = "match_or_create" =>
          /\ last.post.available \subseteq last.pre.available
          /\ Cardinality(last.pre.available \ last.post.available) <= 1
C36_Witness ==
    /\ Len(run.calls) = 3
    /\ run.n = 1
    /\ run.calls[1].urls # <<>>
    /\ run.calls[2].urls = run.calls[1].urls
    /\ run.calls[3].urls = run.calls[1].urls
    /\ run.calls[1].ret = 1
    /\ run.calls[2].ret > run.n

\* the column, after place_window's commands have run, of the windows with the
\* given ids that are tiled in the workspace
ColumnsAfter(ids) == LiveColumns(last.after, last.workspace_id, ids)

\* C37: after place_window's moves have run in the window manager (a move at
\* the edge of the workspace changes nothing), the placed window stands in a
\* column strictly right of the spacer's and of the column of every resolved
\* predecessor that is tiled in the workspace, from whatever column it started.
C37_RightOfPredecessors ==
    last.op = "place_window" =>
        \A c \in ColumnsAfter({last.window_id}) :
            \A d \in ColumnsAfter(SpacerIds(last.after)
                                    \cup Range(last.predecessor_window_ids)) : c > d

\* the window started left of a resolved predecessor that stood in the last
\* column, so the final move right found no neighbour
C37_Witness ==
    /\ last.op = "place_window"
    /\ last.predecessor_window_ids # <<>>
    /\ last.target = LastColumn(last.windows, last.workspace_id) + 1
    /\ last.current_column < last.target - 1
    /\ ColumnsAfter({last.window_id}) = {last.target - 1}
    /\ ColumnsAfter(Range(last.predecessor_window_ids)) # {}

\* the elements ever added that carry the earliest timestamp ever added
EarliestAdded ==
    {el \in Range(loc["p1"].added) :
        \A x \in Range(loc["p1"].added) :
            get_element_timestamp(el) <= get_element_timestamp(x)}

\* a retention run right after a run with the same effective date deletes nothing
SecondRunDeletesNothing == (last.op = "run" /\ last.again) => last.ret = {}

\* C38 as stated: the element added first, which carries the earliest timestamp
\* ever added, is still in the directory, and a second run with the same
\* effective date deletes nothing.
C38_EarliestNeverDeleted ==
    /\ loc["p1"].added # <<>> => loc["p1"].added[1] \in loc["p1"].current_elements
    /\ SecondRunDeletesNothing

\* C38 amended: an element with the earliest timestamp ever added is always in
\* the directory (the one added first when no later file has the same
\* timestamp), and a second run with the same effective date deletes nothing.
C38_EarliestTimestampKept ==
    /\ loc["p1"].added # <<>> => EarliestAdded \cap loc["p1"].current_elements # {}
    /\ Cardinality(EarliestAdded) = 1 => EarliestAdded \subseteq loc["p1"].current_elements
    /\ SecondRunDeletesNothing

\* a run deleted files but not the earliest one, and the run after it, with the
\* same effective date, found nothing to delete
C38_Witness ==
    /\ last.op = "run"
    /\ last.again
    /\ last.first # {}
    /\ last.ret = {}
    /\ Len(loc["p1"].added) = 3
    /\ Cardinality(EarliestAdded) = 1
    /\ EarliestAdded \subseteq loc["p1"].current_elements

\* C39: whatever integers the command line passed for the day counts and the
\* factor, the bucket loop ends and _get_elements_to_delete returns.
C39_Terminates == <>(pc["p1"] = "returned")
====
